---- MODULE Spec2Model ----
(***************************************************************************)
(* Model of the chatbot platform: the database schema with its row-level   *)
(* security policies (migration SQL), the upload-file edge function and    *)
(* the chat-completion edge function.                                      *)
(*                                                                         *)
(* Conventions.  A JavaScript value that may be null/undefined is an       *)
(* option: <<>> is null, <<v>> is the value v.  Identifiers and opaque     *)
(* texts are strings, "" being the empty/absent (falsy) one.  A text the   *)
(* code takes apart (a file name, a storage path) is a sequence of         *)
(* tokens.  Every edge function invocation is a record whose pc is the     *)
(* await it is suspended at; one action is the code between two awaits,    *)
(* together with the effect of the call that was awaited.  The record      *)
(* holds the handler's locals, the external calls it has completed (calls) *)
(* and its response (resp).                                                *)
(***************************************************************************)
EXTENDS Integers, Sequences, FiniteSets, TLC

\* ------------------------------------------------------------------ bounds
MaxInv == 1          \* edge function invocations in flight
MaxIds == 4          \* identifiers handed out by gen_random_uuid / randomUUID

\* --------------------------------------------------------------- constants
KiB == 1024
MirrorLimit == 20 * KiB * KiB      \* 20 * 1024 * 1024
DefaultPrompt == "You are a helpful AI assistant."

None == <<>>
Some(v) == <<v>>

Invocations == 1 .. MaxInv

VARIABLES
  users,       \* auth.users: the registered identities
  profiles,    \* public.profiles
  projects,    \* public.projects
  chats,       \* public.chats
  messages,    \* public.messages, a sequence in insertion (created_at) order
  files,       \* public.files
  bucket,      \* storage bucket 'project-files': the keys of its objects
  nextId,      \* the next identifier gen_random_uuid / randomUUID returns
  openaiApiKey,\* Deno.env.get('OPENAI_API_KEY'): "" when not configured
  deleted,     \* the ids of the rows the last DELETE statement removed
  ci,          \* ChatInterface: the component's state (useState) and props
  view,        \* ChatInterface: the values of its latest render, which the
               \* handlers have closed over and the DOM shows
  sm,          \* ChatInterface.sendMessage calls
  lm,          \* ChatInterface.loadMessages calls awaiting their select
  fu,          \* FileUpload: the component's state (useState)
  fuView,      \* FileUpload: the values of its latest render
  drops,       \* FileUpload.onDrop calls
  dels,        \* FileUpload.deleteFile calls
  dash,        \* Dashboard: the component's state (useState)
  reqs,        \* Dashboard: loadChats / loadFiles / createNewChat /
               \* deleteProject calls awaiting their request
  up,          \* upload-file invocations
  cc           \* chat-completion invocations

vars == <<users, profiles, projects, chats, messages, files, bucket, nextId,
          openaiApiKey, ci, view, sm, lm, fu, fuView, drops, dels, dash,
          reqs, deleted, up, cc>>
dbVars == <<users, profiles, projects, chats, messages>>
fuVars == <<fu, fuView, drops, dels>>
dashVars == <<dash, reqs>>
uiVars == <<ci, view, sm, lm, fuVars, dashVars>>

\* ------------------------------------------------------------ identifiers
Uuid(n) == "id" \o ToString(n)

\* --------------------------------------------------------------- text
\* String.prototype.split('.') on a token sequence: the segments between dots.
RECURSIVE SplitDot(_)
SplitDot(s) ==
  IF \A k \in 1 .. Len(s) : s[k] # "."
  THEN <<s>>
  ELSE LET k == CHOOSE j \in 1 .. Len(s) :
                  s[j] = "." /\ \A h \in 1 .. j - 1 : s[h] # "."
       IN <<SubSeq(s, 1, k - 1)>> \o SplitDot(SubSeq(s, k + 1, Len(s)))

\* Array.prototype.pop(): the last element.
Pop(a) == a[Len(a)]

\* file.name.split('.').pop()
FileExt(name) == Pop(SplitDot(name))

\* Mutant: the key is not put under the user's folder.
FilePath_NoUserFolder(userId, uuid, name) == <<uuid, ".">> \o FileExt(name)

\* `${userId}/${fileName}` with fileName = `${crypto.randomUUID()}.${fileExt}`
FilePath(userId, uuid, name) == <<userId, "/", uuid, ".">> \o FileExt(name)

\* ------------------------------------------------------- referential rules
ProjectExists(pid) == \E p \in projects : p.id = pid
ChatExists(cid) == \E c \in chats : c.id = cid

\* ========================================================================
\* schema: row-level security policies, constraints, triggers
\* ========================================================================
\* The identities that can sign up and send requests with their own JWT.
Identities == {"u1", "u2"}

\* "Users can view own profile": USING (auth.uid() = user_id); the same
\* expression is the WITH CHECK of insert and the USING (and, by default, the
\* WITH CHECK) of update.
ProfilePolicy(uid, p) == uid = p.user_id

\* Mutant: profiles.user_id is not declared UNIQUE.
ProfileUnique_Dropped(rows, u) == TRUE

\* user_id UUID NOT NULL UNIQUE: rows holds no profile of identity u.
ProfileUnique(rows, u) == \A p \in rows : p.user_id # u

\* gen_random_uuid() for the row the trigger inserts at registration:
\* distinct per identity and from every other identifier.
ProfileId(u) == "profile-" \o u

\* "Users can view own projects": USING (auth.uid() = user_id); the same
\* expression is the WITH CHECK of insert and the USING of update / delete.
ProjectPolicy(uid, p) == uid = p.user_id

\* "Users can view chats from own projects": USING (EXISTS (SELECT 1 FROM
\* projects WHERE projects.id = chats.project_id AND projects.user_id =
\* auth.uid())); the same expression guards insert, update and delete.
ChatPolicy(uid, c, projs) ==
  \E p \in projs : p.id = c.project_id /\ p.user_id = uid

\* Mutant: the policy checks that the chat exists, not who owns its project.
MessagePolicy_AnyChat(uid, m, projs, chs) ==
  \E c \in chs : \E p \in projs : p.id = c.project_id /\ c.id = m.chat_id

\* "Users can view messages from own chats": EXISTS over chats JOIN projects;
\* the same expression is the WITH CHECK of insert.
MessagePolicy(uid, m, projs, chs) ==
  \E c \in chs : \E p \in projs :
    p.id = c.project_id /\ c.id = m.chat_id /\ p.user_id = uid

\* "Users can view files from own projects"; the same expression guards
\* insert and delete.
FilePolicy(uid, f, projs) ==
  \E p \in projs : p.id = f.project_id /\ p.user_id = uid

Range(q) == { q[k] : k \in 1 .. Len(q) }

\* Mutant: messages get a FOR DELETE policy like the one of chats.
MessageDeletePolicy_OwnChats(uid, m, projs, chs) ==
  MessagePolicy(uid, m, projs, chs)

\* Row-level security is enabled on messages and the migration creates no
\* FOR UPDATE and no FOR DELETE policy: no row qualifies for either command.
MessageUpdatePolicy(uid, m, projs, chs) == FALSE
MessageDeletePolicy(uid, m, projs, chs) == FALSE

\* SELECT * FROM <table> as identity uid: the rows the policy lets through.
SelectProjects(uid, projs) == { p \in projs : ProjectPolicy(uid, p) }
SelectChats(uid, projs, chs) == { c \in chs : ChatPolicy(uid, c, projs) }
SelectMessages(uid, projs, chs, msgs) ==
  { m \in Range(msgs) : MessagePolicy(uid, m, projs, chs) }
SelectFiles(uid, projs, fs) == { f \in fs : FilePolicy(uid, f, projs) }

\* ON DELETE CASCADE: what is left of each table once the projects in gone
\* are deleted.
RECURSIVE KeepRows(_, _)
KeepRows(q, keep) ==
  IF q = <<>> THEN <<>>
  ELSE IF Head(q) \in keep THEN <<Head(q)>> \o KeepRows(Tail(q), keep)
  ELSE KeepRows(Tail(q), keep)

ChatsAfterDelete_NoCascade(gone) == chats

ChatsAfterDelete(gone) == { c \in chats : c.project_id \notin gone }
MessagesAfterDelete(goneChats) ==
  KeepRows(messages, { m \in Range(messages) : m.chat_id \notin goneChats })
FilesAfterDelete(gone) == { f \in files : f.project_id \notin gone }

\* The ids of the rows one DELETE statement removed, its cascades included:
\* the rows of each table that the statement leaves out.
NoRows == [projects |-> {}, chats |-> {}, messages |-> {}, files |-> {}]
RowsGone(projs, chs, msgs, fs) ==
  [projects |-> { p.id : p \in projects \ projs },
   chats |-> { c.id : c \in chats \ chs },
   messages |-> { m.id : m \in Range(messages) \ Range(msgs) },
   files |-> { f.id : f \in files \ fs }]

\* What a client may put in projects.system_prompt.
PromptInputs == { Some("You are terse."), Some(""), None }

\* auth.users insert and its trigger on_auth_user_created -> handle_new_user.
SignUp(u) ==
  /\ u \notin users
  /\ users' = users \cup {u}
  /\ profiles' = profiles \cup { [id |-> ProfileId(u), user_id |-> u] }
  /\ UNCHANGED <<projects, chats, messages, files, bucket, nextId,
                 openaiApiKey, uiVars, deleted, up, cc>>

\* INSERT INTO profiles (user_id) VALUES (owner) as identity uid.  The
\* statement is rejected, leaving the table as it is, by the policy, by the
\* foreign key to auth.users or by the UNIQUE constraint.
ProfileInsert(uid, owner) ==
  /\ uid \in users
  /\ nextId <= MaxIds
  /\ LET row == [id |-> Uuid(nextId), user_id |-> owner]
         accepted == /\ ProfilePolicy(uid, row)
                     /\ owner \in users
                     /\ ProfileUnique(profiles, owner)
     IN /\ profiles' = IF accepted THEN profiles \cup {row} ELSE profiles
        /\ nextId' = IF accepted THEN nextId + 1 ELSE nextId
  /\ UNCHANGED <<users, projects, chats, messages, files, bucket,
                 openaiApiKey, uiVars, deleted, up, cc>>

\* UPDATE profiles SET user_id = owner WHERE id = pid as identity uid: the
\* row must pass the policy before and after, and the constraints after.
ProfileUpdate(uid, pid, owner) ==
  /\ uid \in users
  /\ profiles' =
       { IF /\ p.id = pid
            /\ ProfilePolicy(uid, p)
            /\ ProfilePolicy(uid, [p EXCEPT !.user_id = owner])
            /\ owner \in users
            /\ ProfileUnique(profiles \ {p}, owner)
         THEN [p EXCEPT !.user_id = owner]
         ELSE p : p \in profiles }
  /\ UNCHANGED <<users, projects, chats, messages, files, bucket, nextId,
                 openaiApiKey, uiVars, deleted, up, cc>>

\* INSERT INTO projects as identity uid (Dashboard.createProject sends
\* user_id: user.id; the policy is what rejects any other owner).
ProjectInsert(uid, owner, prompt) ==
  /\ uid \in users /\ owner \in users
  /\ nextId <= MaxIds
  /\ LET row == [id |-> Uuid(nextId), user_id |-> owner,
                 system_prompt |-> prompt]
     IN /\ ProjectPolicy(uid, row)
        /\ projects' = projects \cup {row}
  /\ nextId' = nextId + 1
  /\ UNCHANGED <<users, profiles, chats, messages, files, bucket,
                 openaiApiKey, uiVars, deleted, up, cc>>

\* DELETE FROM projects WHERE id = pid as identity uid, with the cascades
\* (Dashboard.deleteProject issues exactly this statement and nothing else
\* that reaches the database or the bucket).
ProjectDelete(uid, pid) ==
  /\ uid \in users
  /\ LET gone == { p.id : p \in { q \in SelectProjects(uid, projects) :
                                   q.id = pid } }
         goneChats == { c.id : c \in { d \in chats : d.project_id \in gone } }
     IN /\ gone # {}
        /\ projects' = { p \in projects : p.id \notin gone }
        /\ chats' = ChatsAfterDelete(gone)
        /\ messages' = MessagesAfterDelete(goneChats)
        /\ files' = FilesAfterDelete(gone)
        /\ deleted' = RowsGone(projects', chats', messages', files')
  /\ UNCHANGED <<users, profiles, bucket, nextId, openaiApiKey, uiVars, up, cc>>

\* DELETE FROM chats WHERE id = cid as identity uid, with the cascade to
\* messages.
ChatDelete(uid, cid) ==
  /\ uid \in users
  /\ LET goneChats == { c.id : c \in { d \in SelectChats(uid, projects, chats) :
                                        d.id = cid } }
     IN /\ goneChats # {}
        /\ chats' = { c \in chats : c.id \notin goneChats }
        /\ messages' = MessagesAfterDelete(goneChats)
        /\ deleted' = RowsGone(projects, chats', messages', files)
  /\ UNCHANGED <<users, profiles, projects, files, bucket, nextId,
                 openaiApiKey, uiVars, up, cc>>

\* DELETE FROM files WHERE id = fid as identity uid.
FileDelete(uid, fid) ==
  /\ uid \in users
  /\ LET gone == { f \in SelectFiles(uid, projects, files) : f.id = fid }
     IN /\ gone # {}
        /\ files' = files \ gone
        /\ deleted' = RowsGone(projects, chats, messages, files')
  /\ UNCHANGED <<users, profiles, projects, chats, messages, bucket, nextId,
                 openaiApiKey, uiVars, up, cc>>

\* INSERT INTO chats as identity uid (Dashboard.createNewChat).
ChatInsert(uid, pid) ==
  /\ uid \in users
  /\ nextId <= MaxIds
  /\ ProjectExists(pid)
  /\ LET row == [id |-> Uuid(nextId), project_id |-> pid]
     IN /\ ChatPolicy(uid, row, projects)
        /\ chats' = chats \cup {row}
  /\ nextId' = nextId + 1
  /\ UNCHANGED <<users, profiles, projects, messages, files, bucket,
                 openaiApiKey, uiVars, deleted, up, cc>>

\* INSERT INTO messages as identity uid (ChatInterface.sendMessage).
MessageInsert(uid, cid, role, content) ==
  /\ uid \in users
  /\ nextId <= MaxIds
  /\ ChatExists(cid)
  /\ role \in {"user", "assistant"}
  /\ LET row == [id |-> Uuid(nextId), chat_id |-> cid, role |-> role,
                 content |-> content]
     IN /\ MessagePolicy(uid, row, projects, chats)
        /\ messages' = Append(messages, row)
  /\ nextId' = nextId + 1
  /\ UNCHANGED <<users, profiles, projects, chats, files, bucket,
                 openaiApiKey, uiVars, deleted, up, cc>>

\* UPDATE messages SET content = ... WHERE id = mid as identity uid.
MessageUpdate(uid, mid, content) ==
  /\ uid \in users
  /\ messages' =
       [ k \in 1 .. Len(messages) |->
           IF /\ messages[k].id = mid
              /\ MessageUpdatePolicy(uid, messages[k], projects, chats)
           THEN [messages[k] EXCEPT !.content = content]
           ELSE messages[k] ]
  /\ UNCHANGED <<users, profiles, projects, chats, files, bucket, nextId,
                 openaiApiKey, uiVars, deleted, up, cc>>

\* DELETE FROM messages WHERE id = mid as identity uid.
MessageDelete(uid, mid) ==
  /\ uid \in users
  /\ messages' =
       KeepRows(messages,
                { m \in Range(messages) :
                    ~(m.id = mid
                      /\ MessageDeletePolicy(uid, m, projects, chats)) })
  /\ deleted' = RowsGone(projects, chats, messages', files)
  /\ UNCHANGED <<users, profiles, projects, chats, files, bucket, nextId,
                 openaiApiKey, uiVars, up, cc>>

\* INSERT INTO files as identity uid.
FileInsert(uid, pid, path) ==
  /\ uid \in users
  /\ nextId <= MaxIds
  /\ ProjectExists(pid)
  /\ LET row == [id |-> Uuid(nextId), project_id |-> pid,
                 name |-> <<"a", ".", "t">>, size |-> 5 * KiB,
                 type |-> "text/plain", storage_path |-> path]
     IN /\ FilePolicy(uid, row, projects)
        /\ files' = files \cup {row}
  /\ nextId' = nextId + 1
  /\ UNCHANGED <<users, profiles, projects, chats, messages, bucket,
                 openaiApiKey, uiVars, deleted, up, cc>>

DbNext ==
  \/ \E u \in Identities : SignUp(u)
  \/ \E uid \in Identities, owner \in Identities : ProfileInsert(uid, owner)
  \/ \E uid \in Identities, p \in profiles, owner \in Identities :
       ProfileUpdate(uid, p.id, owner)
  \/ \E uid \in Identities, owner \in Identities, prompt \in PromptInputs :
       ProjectInsert(uid, owner, prompt)
  \/ \E uid \in Identities, p \in projects : ProjectDelete(uid, p.id)
  \/ \E uid \in Identities, p \in projects : ChatInsert(uid, p.id)
  \/ \E uid \in Identities, c \in chats : ChatDelete(uid, c.id)
  \/ \E uid \in Identities, c \in chats, role \in {"user", "assistant"} :
       MessageInsert(uid, c.id, role, "hi")
  \/ \E uid \in Identities, m \in Range(messages) :
       MessageUpdate(uid, m.id, "edited")
  \/ \E uid \in Identities, m \in Range(messages) : MessageDelete(uid, m.id)
  \/ \E uid \in Identities, p \in projects :
       FileInsert(uid, p.id, <<uid, "/", "f", ".", "t">>)
  \/ \E uid \in Identities, f \in files : FileDelete(uid, f.id)

\* ------------------------------------------------------------ seeded data
\* Rows present before the relays are invoked: two identities, each owning
\* projects (with a custom prompt, with an empty prompt, with a NULL prompt),
\* and one chat in the first project.
SeedUsers == {"u1", "u2"}
SeedProjects ==
  { [id |-> "p1", user_id |-> "u1", system_prompt |-> Some("You are terse.")],
    [id |-> "p2", user_id |-> "u2", system_prompt |-> Some("")],
    [id |-> "p3", user_id |-> "u2", system_prompt |-> None] }
SeedChats == { [id |-> "c1", project_id |-> "p1"] }
SeedProfiles == { [id |-> ProfileId(u), user_id |-> u] : u \in SeedUsers }

\* ------------------------------------------------- failures of a service
\* The error a failing storage or database call hands back (the object the
\* handlers write with console.error): its message, per call.
ServiceFailure(call) ==
  CASE call = "storage.upload" -> "The resource already exists"
    [] call = "files.insert" -> "violates foreign key constraint (files)"
    [] call = "projects.select" -> "no rows returned"
    [] call = "messages.insert" -> "violates foreign key constraint (messages)"

\* --------------------------------------------------- HTTP responses (fetch)
\* Response.ok: the status is in the range 200-299.
ResponseOk(status) == status >= 200 /\ status <= 299

\* ========================================================================
\* upload-file edge function
\* ========================================================================
UploadFiles ==
  { [name |-> <<"a", ".", "t">>, size |-> 5 * KiB, type |-> "text/plain"],
    [name |-> <<"b">>, size |-> MirrorLimit, type |-> "image/png"],
    [name |-> <<"a", ".", "b", ".">>, size |-> MirrorLimit + 1,
     type |-> "text/plain"] }

\* The requests the function is sent: a CORS preflight, and POSTs whose form
\* carries or lacks each of the three fields.
UploadRequests ==
  { [method |-> "OPTIONS", file |-> None, projectId |-> "", userId |-> ""] }
  \cup
  [ method : {"POST"},
    file : {None} \cup { Some(f) : f \in UploadFiles },
    projectId : {"", "p1", "p9"},
    userId : {"", "u1", "u2"} ]

UploadIdle ==
  [ pc |-> "idle", req |-> CHOOSE r \in UploadRequests : r.method = "OPTIONS",
    filePath |-> <<>>, uploadError |-> FALSE, fileData |-> None,
    fileError |-> FALSE, mirror |-> None, cause |-> None, calls |-> <<>>,
    resp |-> None ]

\* new Response(null, { headers: corsHeaders })
UploadPreflight ==
  [ status |-> 200, error |-> None, file |-> None, openaiFileId |-> None,
    message |-> None ]

\* catch: new Response(JSON.stringify({ error: errorMessage }), { status: 500 })
UploadError(msg) ==
  [ status |-> 500, error |-> Some(msg), file |-> None, openaiFileId |-> None,
    message |-> None ]

\* new Response(JSON.stringify({ file: fileData, openaiFileId, message }))
UploadSuccess(fileData, openaiFileId) ==
  [ status |-> 200, error |-> None, file |-> fileData,
    openaiFileId |-> openaiFileId,
    message |-> Some("File uploaded successfully") ]

\* if (!file || !projectId || !userId)
UploadMissing(r) == r.file = None \/ r.projectId = "" \/ r.userId = ""

\* Mutant: the limit excludes a file of exactly 20 MiB.
ShouldMirror_StrictLimit(key, size) == key # "" /\ size < MirrorLimit

\* if (openaiApiKey && file.size <= 20 * 1024 * 1024)
ShouldMirror(key, size) == key # "" /\ size <= MirrorLimit

\* What the mirror fetch can come back with: a thrown network error, a
\* non-2xx answer, a 2xx answer whose body parses to { id }, a 2xx answer
\* whose body is not JSON.
MirrorOutcomes ==
  { [threw |-> TRUE, status |-> 0, body |-> None],
    [threw |-> FALSE, status |-> 500, body |-> None],
    [threw |-> FALSE, status |-> 200, body |-> Some("file-abc")],
    [threw |-> FALSE, status |-> 200, body |-> None] }

\* The try block around the mirror fetch: openaiFileId after it.
MirrorFileId(o) ==
  IF ~o.threw /\ ResponseOk(o.status) /\ o.body # None THEN o.body ELSE None

\* serve(): from the request to the first await on the storage upload.
UploadRecv(i, r) ==
  /\ up[i].pc = "idle"
  /\ cc[i].pc = "idle"
  /\ IF r.method = "OPTIONS"
     THEN /\ up' = [up EXCEPT ![i].pc = "done", ![i].req = r,
                              ![i].resp = Some(UploadPreflight)]
          /\ UNCHANGED nextId
     ELSE IF UploadMissing(r)
     THEN /\ up' = [up EXCEPT ![i].pc = "done", ![i].req = r,
                      ![i].resp = Some(UploadError(
                        "Missing required parameters: file, projectId, and userId"))]
          /\ UNCHANGED nextId
     ELSE /\ nextId <= MaxIds
          /\ up' = [up EXCEPT ![i].pc = "upload", ![i].req = r,
                      ![i].filePath =
                        FilePath(r.userId, Uuid(nextId), r.file[1].name)]
          /\ nextId' = nextId + 1
  /\ UNCHANGED <<dbVars, files, bucket, openaiApiKey, uiVars, deleted, cc>>

\* Mutant: uploadError is not looked at.
UploadStore_IgnoresError(i, ok) ==
  /\ up[i].pc = "upload"
  /\ ok => up[i].filePath \notin bucket
  /\ bucket' = IF ok THEN bucket \cup {up[i].filePath} ELSE bucket
  /\ up' = [up EXCEPT ![i].pc = "insert", ![i].uploadError = ~ok,
              ![i].calls = Append(@, "storage.upload")]
  /\ UNCHANGED <<dbVars, files, nextId, openaiApiKey, uiVars, deleted, cc>>

\* Mutant: the storage client's own error is thrown on.
UploadStore_Verbatim(i, ok) ==
  /\ up[i].pc = "upload"
  /\ ok => up[i].filePath \notin bucket
  /\ bucket' = IF ok THEN bucket \cup {up[i].filePath} ELSE bucket
  /\ up' = [up EXCEPT ![i].pc = IF ok THEN "insert" ELSE "done",
              ![i].uploadError = ~ok,
              ![i].cause = IF ok THEN None
                           ELSE Some(ServiceFailure("storage.upload")),
              ![i].calls = Append(@, "storage.upload"),
              ![i].resp = IF ok THEN None
                          ELSE Some(UploadError(
                                 ServiceFailure("storage.upload")))]
  /\ UNCHANGED <<dbVars, files, nextId, openaiApiKey, uiVars, deleted, cc>>

\* supabase.storage.from('project-files').upload(filePath, file) and the code
\* up to the await on the metadata insert.  The write fails when the key is
\* taken (no upsert), and may fail for any other reason.
UploadStore(i, ok) ==
  /\ up[i].pc = "upload"
  /\ ok => up[i].filePath \notin bucket
  /\ IF ok
     THEN /\ bucket' = bucket \cup {up[i].filePath}
          /\ up' = [up EXCEPT ![i].pc = "insert",
                      ![i].calls = Append(@, "storage.upload")]
     ELSE /\ UNCHANGED bucket
          /\ up' = [up EXCEPT ![i].pc = "done",
                      ![i].uploadError = TRUE,
                      ![i].cause = Some(ServiceFailure("storage.upload")),
                      ![i].calls = Append(@, "storage.upload"),
                      ![i].resp = Some(UploadError(
                        "Failed to upload file to storage"))]
  /\ UNCHANGED <<dbVars, files, nextId, openaiApiKey, uiVars, deleted, cc>>

\* The row of supabase.from('files').insert({...}).select().single()
FileRow(id, r, filePath) ==
  [ id |-> id, project_id |-> r.projectId, name |-> r.file[1].name,
    size |-> r.file[1].size, type |-> r.file[1].type,
    storage_path |-> filePath ]

\* Mutant: a failed metadata insert removes the object again.
UploadInsert_RollsBack(i, ok) ==
  /\ up[i].pc = "insert"
  /\ ok => ProjectExists(up[i].req.projectId) /\ nextId <= MaxIds
  /\ IF ok
     THEN LET row == FileRow(Uuid(nextId), up[i].req, up[i].filePath) IN
          /\ files' = files \cup {row}
          /\ nextId' = nextId + 1
          /\ UNCHANGED bucket
          /\ IF ShouldMirror(openaiApiKey, up[i].req.file[1].size)
             THEN up' = [up EXCEPT ![i].pc = "mirror",
                           ![i].fileData = Some(row),
                           ![i].calls = Append(@, "files.insert")]
             ELSE up' = [up EXCEPT ![i].pc = "done",
                           ![i].fileData = Some(row),
                           ![i].calls = Append(@, "files.insert"),
                           ![i].resp = Some(UploadSuccess(Some(row), None))]
     ELSE /\ UNCHANGED <<files, nextId>>
          /\ bucket' = bucket \ {up[i].filePath}
          /\ up' = [up EXCEPT ![i].pc = "done",
                      ![i].fileError = TRUE,
                      ![i].calls = Append(@, "files.insert"),
                      ![i].resp = Some(UploadError(
                        "Failed to save file metadata"))]
  /\ UNCHANGED <<dbVars, openaiApiKey, uiVars, deleted, cc>>

\* Mutant: the metadata insert is refused unless userId owns the project.
UploadInsert_ChecksOwner(i, ok) ==
  /\ up[i].pc = "insert"
  /\ ok => /\ ProjectExists(up[i].req.projectId) /\ nextId <= MaxIds
           /\ \E p \in projects : /\ p.id = up[i].req.projectId
                                   /\ p.user_id = up[i].req.userId
  /\ LET row == FileRow(Uuid(nextId), up[i].req, up[i].filePath) IN
     /\ files' = IF ok THEN files \cup {row} ELSE files
     /\ nextId' = IF ok THEN nextId + 1 ELSE nextId
     /\ up' = [up EXCEPT ![i].pc = "done",
                 ![i].fileError = ~ok,
                 ![i].fileData = IF ok THEN Some(row) ELSE None,
                 ![i].calls = Append(@, "files.insert"),
                 ![i].resp = IF ok THEN Some(UploadSuccess(Some(row), None))
                             ELSE Some(UploadError(
                                    "Failed to save file metadata"))]
  /\ UNCHANGED <<dbVars, bucket, openaiApiKey, uiVars, deleted, cc>>

\* The metadata insert and the code up to the await on the mirror fetch, or
\* to the response when the file is not mirrored.  The insert fails when the
\* project does not exist (foreign key), and may fail for any other reason.
UploadInsert(i, ok) ==
  /\ up[i].pc = "insert"
  /\ ok => ProjectExists(up[i].req.projectId) /\ nextId <= MaxIds
  /\ IF ok
     THEN LET row == FileRow(Uuid(nextId), up[i].req, up[i].filePath) IN
          /\ files' = files \cup {row}
          /\ nextId' = nextId + 1
          /\ IF ShouldMirror(openaiApiKey, up[i].req.file[1].size)
             THEN up' = [up EXCEPT ![i].pc = "mirror",
                           ![i].fileData = Some(row),
                           ![i].calls = Append(@, "files.insert")]
             ELSE up' = [up EXCEPT ![i].pc = "done",
                           ![i].fileData = Some(row),
                           ![i].calls = Append(@, "files.insert"),
                           ![i].resp = Some(UploadSuccess(Some(row), None))]
     ELSE /\ UNCHANGED <<files, nextId>>
          /\ up' = [up EXCEPT ![i].pc = "done",
                      ![i].fileError = TRUE,
                      ![i].cause = Some(ServiceFailure("files.insert")),
                      ![i].calls = Append(@, "files.insert"),
                      ![i].resp = Some(UploadError(
                        "Failed to save file metadata"))]
  /\ UNCHANGED <<dbVars, bucket, openaiApiKey, uiVars, deleted, cc>>

\* Mutant: a mirror failure reaches the outer catch.
UploadMirror_Surfaces(i, o) ==
  /\ up[i].pc = "mirror"
  /\ up' = [up EXCEPT ![i].pc = "done",
              ![i].calls = Append(@, "openai.files"),
              ![i].mirror = Some(o),
              ![i].resp =
                IF o.threw \/ ~ResponseOk(o.status)
                THEN Some(UploadError("OpenAI upload failed"))
                ELSE Some(UploadSuccess(up[i].fileData, MirrorFileId(o)))]
  /\ UNCHANGED <<dbVars, files, bucket, nextId, openaiApiKey, uiVars,
                 deleted, cc>>

\* fetch('https://api.openai.com/v1/files') inside its own try/catch, and the
\* success response.
UploadMirror(i, o) ==
  /\ up[i].pc = "mirror"
  /\ up' = [up EXCEPT ![i].pc = "done",
              ![i].calls = Append(@, "openai.files"),
              ![i].mirror = Some(o),
              ![i].resp = Some(UploadSuccess(up[i].fileData, MirrorFileId(o)))]
  /\ UNCHANGED <<dbVars, files, bucket, nextId, openaiApiKey, uiVars,
                 deleted, cc>>

UploadNext ==
  \/ \E i \in Invocations, r \in UploadRequests : UploadRecv(i, r)
  \/ \E i \in Invocations, ok \in BOOLEAN : UploadStore(i, ok)
  \/ \E i \in Invocations, ok \in BOOLEAN : UploadInsert(i, ok)
  \/ \E i \in Invocations, o \in MirrorOutcomes : UploadMirror(i, o)

\* ========================================================================
\* chat-completion edge function
\* ========================================================================
ChatHistories ==
  { <<>>,
    << [role |-> "user", content |-> "hi"] >>,
    << [role |-> "user", content |-> "hi"],
       [role |-> "assistant", content |-> "hello"],
       [role |-> "user", content |-> "hi"] >> }

\* The requests the function is sent: a CORS preflight, and POSTs whose JSON
\* body carries or lacks each of the three fields.
ChatRequests ==
  { [method |-> "OPTIONS", messages |-> None, chatId |-> "", projectId |-> ""] }
  \cup
  [ method : {"POST"},
    messages : {None} \cup { Some(h) : h \in ChatHistories },
    chatId : {"", "c1", "c9"},
    projectId : {"", "p1", "p2", "p3", "p9"} ]

ChatIdle ==
  [ pc |-> "idle", req |-> CHOOSE r \in ChatRequests : r.method = "OPTIONS",
    sent |-> None, upstream |-> None, reply |-> None, saved |-> None,
    projectError |-> FALSE, messageError |-> FALSE, cause |-> None,
    calls |-> <<>>, resp |-> None ]

\* new Response(null, { headers: corsHeaders })
ChatPreflight ==
  [ status |-> 200, error |-> None, message |-> None, usage |-> None ]

\* Mutant: the catch block answers with a client-error status.
ChatError_BadRequest(msg) ==
  [ status |-> 400, error |-> Some(msg), message |-> None, usage |-> None ]

\* catch: new Response(JSON.stringify({ error: error.message }), { status: 500 })
ChatError(msg) ==
  [ status |-> 500, error |-> Some(msg), message |-> None, usage |-> None ]

\* new Response(JSON.stringify({ message: assistantMessage, usage: data.usage }))
ChatSuccess(assistantMessage, usage) ==
  [ status |-> 200, error |-> None, message |-> Some(assistantMessage),
    usage |-> Some(usage) ]

\* Mutant: the validation forgets chatId.
ChatMissing_ForgetsChatId(r) == r.messages = None \/ r.projectId = ""

\* if (!messages || !chatId || !projectId)
ChatMissing(r) == r.messages = None \/ r.chatId = "" \/ r.projectId = ""

\* project.system_prompt || 'You are a helpful AI assistant.'
SystemContent(prompt) ==
  IF prompt = None \/ prompt = Some("") THEN DefaultPrompt ELSE prompt[1]

\* Mutant: the system entry is appended instead of prepended.
OpenaiMessages_SystemLast(project, msgs) ==
  msgs \o
  << [role |-> "system", content |-> SystemContent(project.system_prompt)] >>

\* [ { role: 'system', content: ... }, ...messages ]
OpenaiMessages(project, msgs) ==
  << [role |-> "system", content |-> SystemContent(project.system_prompt)] >>
  \o msgs

\* What the completion fetch can come back with: a thrown network error, a
\* non-2xx answer with its body text, a 2xx answer whose body parses to a
\* completion, a 2xx answer whose body does not.
CompletionOutcomes ==
  { [threw |-> TRUE, status |-> 0, text |-> "fetch failed", data |-> None],
    [threw |-> FALSE, status |-> 429, text |-> "rate limited", data |-> None],
    [threw |-> FALSE, status |-> 503, text |-> "", data |-> None],
    [threw |-> FALSE, status |-> 200, text |-> "Unexpected end of JSON input",
     data |-> None],
    [threw |-> FALSE, status |-> 200, text |-> "",
     data |-> Some([content |-> "hello", usage |-> "usage-1"])] }

\* Mutant: the upstream body text is left out of the message.
UpstreamErrorMessage_NoBody(status, errorText) ==
  "OpenAI API error: " \o ToString(status)

\* new Error(`OpenAI API error: ${response.status} ${errorText}`).message
UpstreamErrorMessage(status, errorText) ==
  "OpenAI API error: " \o ToString(status) \o " " \o errorText

\* serve(): from the request to the await on the project fetch.
ChatRecv(i, r) ==
  /\ cc[i].pc = "idle"
  /\ up[i].pc = "idle"
  /\ IF r.method = "OPTIONS"
     THEN cc' = [cc EXCEPT ![i].pc = "done", ![i].req = r,
                           ![i].resp = Some(ChatPreflight)]
     ELSE IF ChatMissing(r)
     THEN cc' = [cc EXCEPT ![i].pc = "done", ![i].req = r,
                   ![i].resp = Some(ChatError(
                     "Missing required parameters: messages, chatId, and projectId"))]
     ELSE cc' = [cc EXCEPT ![i].pc = "fetch", ![i].req = r]
  /\ UNCHANGED <<dbVars, files, bucket, nextId, openaiApiKey, uiVars,
                 deleted, up>>

\* Mutant: projectError is not looked at; without a project the default
\* prompt is sent.
ChatFetchProject_IgnoresError(i, ok) ==
  /\ cc[i].pc = "fetch"
  /\ ok => ProjectExists(cc[i].req.projectId)
  /\ cc' = [cc EXCEPT ![i].pc = "openai",
              ![i].projectError = ~ok,
              ![i].calls = Append(@, "projects.select"),
              ![i].sent = Some(<< [role |-> "system",
                                   content |-> DefaultPrompt] >>
                               \o cc[i].req.messages[1])]
  /\ UNCHANGED <<dbVars, files, bucket, nextId, openaiApiKey, uiVars,
                 deleted, up>>

\* supabase.from('projects').select('system_prompt').eq('id', projectId)
\* .single() and the code up to the await on the completion fetch.  The
\* fetch fails when no project has that id, and may fail for any other reason.
ChatFetchProject(i, ok) ==
  /\ cc[i].pc = "fetch"
  /\ ok => ProjectExists(cc[i].req.projectId)
  /\ IF ~ok
     THEN cc' = [cc EXCEPT ![i].pc = "done",
                   ![i].projectError = TRUE,
                   ![i].cause = Some(ServiceFailure("projects.select")),
                   ![i].calls = Append(@, "projects.select"),
                   ![i].resp = Some(ChatError("Failed to fetch project details"))]
     ELSE LET project == CHOOSE p \in projects : p.id = cc[i].req.projectId
              openaiMessages == OpenaiMessages(project, cc[i].req.messages[1])
          IN IF openaiApiKey = ""
             THEN cc' = [cc EXCEPT ![i].pc = "done",
                           ![i].calls = Append(@, "projects.select"),
                           ![i].resp = Some(ChatError(
                             "OpenAI API key not configured"))]
             ELSE cc' = [cc EXCEPT ![i].pc = "openai",
                           ![i].calls = Append(@, "projects.select"),
                           ![i].sent = Some(openaiMessages)]
  /\ UNCHANGED <<dbVars, files, bucket, nextId, openaiApiKey, uiVars,
                 deleted, up>>

\* fetch('https://api.openai.com/v1/chat/completions') and the code up to the
\* await on the message insert.
ChatCallOpenAI(i, o) ==
  /\ cc[i].pc = "openai"
  /\ IF o.threw
     THEN cc' = [cc EXCEPT ![i].pc = "done",
                   ![i].calls = Append(@, "openai.chat"),
                   ![i].upstream = Some(o),
                   ![i].cause = Some(o.text),
                   ![i].resp = Some(ChatError(o.text))]
     ELSE IF ~ResponseOk(o.status)
     THEN cc' = [cc EXCEPT ![i].pc = "done",
                   ![i].calls = Append(@, "openai.chat"),
                   ![i].upstream = Some(o),
                   ![i].cause = Some(o.text),
                   ![i].resp = Some(ChatError(
                     UpstreamErrorMessage(o.status, o.text)))]
     ELSE IF o.data = None
     THEN cc' = [cc EXCEPT ![i].pc = "done",
                   ![i].calls = Append(@, "openai.chat"),
                   ![i].upstream = Some(o),
                   ![i].cause = Some(o.text),
                   ![i].resp = Some(ChatError(o.text))]
     ELSE cc' = [cc EXCEPT ![i].pc = "save",
                   ![i].calls = Append(@, "openai.chat"),
                   ![i].upstream = Some(o),
                   ![i].reply = o.data]
  /\ UNCHANGED <<dbVars, files, bucket, nextId, openaiApiKey, uiVars,
                 deleted, up>>

\* Mutant: the reply is stored with the role of the sender.
AssistantRow_UserRole(id, chatId, assistantMessage) ==
  [ id |-> id, chat_id |-> chatId, role |-> "user",
    content |-> assistantMessage ]

\* The row of supabase.from('messages').insert({...})
AssistantRow(id, chatId, assistantMessage) ==
  [ id |-> id, chat_id |-> chatId, role |-> "assistant",
    content |-> assistantMessage ]

\* Mutant: a reply the chat already holds is not inserted again.
ChatSaveMessage_Dedup(i, ok) ==
  /\ cc[i].pc = "save"
  /\ ok => ChatExists(cc[i].req.chatId) /\ nextId <= MaxIds
  /\ LET row == AssistantRow(Uuid(nextId), cc[i].req.chatId,
                             cc[i].reply[1].content)
         dup == \E m \in Range(messages) :
                  /\ m.chat_id = row.chat_id /\ m.role = row.role
                  /\ m.content = row.content
     IN /\ messages' = IF ok /\ ~dup THEN Append(messages, row) ELSE messages
        /\ nextId' = IF ok /\ ~dup THEN nextId + 1 ELSE nextId
        /\ cc' = [cc EXCEPT ![i].pc = "done",
                    ![i].messageError = ~ok,
                    ![i].saved = IF ok /\ ~dup THEN Some(row) ELSE None,
                    ![i].calls = Append(@, "messages.insert"),
                    ![i].resp =
                      IF ok THEN Some(ChatSuccess(cc[i].reply[1].content,
                                                  cc[i].reply[1].usage))
                      ELSE Some(ChatError("Failed to save assistant message"))]
  /\ UNCHANGED <<users, profiles, projects, chats, files, bucket,
                 openaiApiKey, uiVars, deleted, up>>

\* The message insert and the response.  The insert fails when the chat does
\* not exist (foreign key), and may fail for any other reason.
ChatSaveMessage(i, ok) ==
  /\ cc[i].pc = "save"
  /\ ok => ChatExists(cc[i].req.chatId) /\ nextId <= MaxIds
  /\ IF ok
     THEN /\ messages' = Append(messages,
               AssistantRow(Uuid(nextId), cc[i].req.chatId,
                            cc[i].reply[1].content))
          /\ nextId' = nextId + 1
          /\ cc' = [cc EXCEPT ![i].pc = "done",
                      ![i].saved = Some(AssistantRow(Uuid(nextId),
                                     cc[i].req.chatId, cc[i].reply[1].content)),
                      ![i].calls = Append(@, "messages.insert"),
                      ![i].resp = Some(ChatSuccess(cc[i].reply[1].content,
                                                   cc[i].reply[1].usage))]
     ELSE /\ UNCHANGED <<messages, nextId>>
          /\ cc' = [cc EXCEPT ![i].pc = "done",
                      ![i].messageError = TRUE,
                      ![i].cause = Some(ServiceFailure("messages.insert")),
                      ![i].calls = Append(@, "messages.insert"),
                      ![i].resp = Some(ChatError(
                        "Failed to save assistant message"))]
  /\ UNCHANGED <<users, profiles, projects, chats, files, bucket,
                 openaiApiKey, uiVars, deleted, up>>

ChatNext ==
  \/ \E i \in Invocations, r \in ChatRequests : ChatRecv(i, r)
  \/ \E i \in Invocations, ok \in BOOLEAN : ChatFetchProject(i, ok)
  \/ \E i \in Invocations, o \in CompletionOutcomes : ChatCallOpenAI(i, o)
  \/ \E i \in Invocations, ok \in BOOLEAN : ChatSaveMessage(i, ok)

\* ========================================================================
\* ChatInterface (React component)
\* ========================================================================
\* The text of the input box is a sequence of tokens, a token being a word
\* or a blank.
\* String.prototype.trim(): the text without its leading and trailing blanks.
RECURSIVE TrimStart(_)
TrimStart(t) ==
  IF t # <<>> /\ Head(t) = " " THEN TrimStart(Tail(t)) ELSE t
RECURSIVE TrimEnd(_)
TrimEnd(t) ==
  IF t # <<>> /\ t[Len(t)] = " " THEN TrimEnd(SubSeq(t, 1, Len(t) - 1)) ELSE t
Trim(t) == TrimEnd(TrimStart(t))

\* The string a token sequence spells.
RECURSIVE Text(_)
Text(t) == IF t = <<>> THEN "" ELSE Head(t) \o Text(Tail(t))

\* What the user types into the input box.
TypedTexts == { <<" ">>, <<"hi", " ">> }

\* useAuth().user and the project prop of the mounted component.
CurrentUser == "u1"
CurrentProject == "p1"

\* The component mounted on the seeded chat, its messages loaded (none yet).
ChatInterfaceMounted ==
  [ messages |-> <<>>, inputMessage |-> <<>>, loading |-> FALSE,
    loadingMessages |-> FALSE, selectedChat |-> Some("c1") ]

\* sendMessage calls: one per completion invocation slot it may use.
Sends == 1 .. MaxInv + 1
SendIdle ==
  [ pc |-> "idle", inputMessage |-> <<>>, selectedChat |-> None,
    history |-> <<>>, userMessage |-> "", saveError |-> FALSE,
    body |-> None, toast |-> None ]

\* The component renders: handlers and DOM now hold the current state
\* (selectedChat is a prop: the value the parent set).  After the render the
\* effect on [selectedChat] runs if the prop has changed: loadMessages up to
\* its await, or setMessages([]) without a chat.
Render ==
  /\ view # ci
  /\ view' = ci
  /\ IF ci.selectedChat = view.selectedChat
     THEN UNCHANGED <<ci, lm>>
     ELSE IF ci.selectedChat # None
     THEN /\ ci' = [ci EXCEPT !.loadingMessages = TRUE]
          /\ lm' = lm \cup {[chat |-> ci.selectedChat[1]]}
     ELSE /\ ci' = [ci EXCEPT !.messages = <<>>]
          /\ UNCHANGED lm
  /\ UNCHANGED <<dbVars, files, bucket, nextId, openaiApiKey, fuVars,
                 dashVars, sm, deleted, up, cc>>

\* <Input onChange={(e) => setInputMessage(e.target.value)} disabled={loading}>
TypeInput(t) ==
  /\ ~view.loading
  /\ ci' = [ci EXCEPT !.inputMessage = t]
  /\ UNCHANGED <<dbVars, files, bucket, nextId, openaiApiKey, lm, fuVars,
                 dashVars, view, sm,
                 deleted, up, cc>>

\* Mutant: sendMessage returns at once while an earlier call is in flight.
SendStart_InFlightGuard(k, how) ==
  /\ sm[k].pc = "idle"
  /\ k > 1 => sm[k - 1].pc # "idle"
  /\ ~view.loading
  /\ how = "click" => Trim(view.inputMessage) # <<>>
  /\ IF Trim(view.inputMessage) = <<>> \/ view.selectedChat = None
        \/ ci.loading
     THEN /\ sm' = [sm EXCEPT ![k].pc = "returned",
                      ![k].inputMessage = view.inputMessage,
                      ![k].selectedChat = view.selectedChat]
          /\ UNCHANGED ci
     ELSE /\ sm' = [sm EXCEPT ![k].pc = "insert",
                      ![k].inputMessage = view.inputMessage,
                      ![k].selectedChat = view.selectedChat,
                      ![k].history = view.messages,
                      ![k].userMessage = Text(Trim(view.inputMessage))]
          /\ ci' = [ci EXCEPT !.inputMessage = <<>>, !.loading = TRUE]
  /\ UNCHANGED <<dbVars, files, bucket, nextId, openaiApiKey, lm, fuVars,
                 dashVars, view, deleted,
                 up, cc>>

\* sendMessage, from its call to the await on the insert of the user's
\* message.  It is called by a click on the send button (disabled={loading ||
\* !inputMessage.trim()}) or by Enter in the input box (disabled={loading}),
\* as the latest render shows them, and runs with that render's values.
SendStart(k, how) ==
  /\ sm[k].pc = "idle"
  /\ k > 1 => sm[k - 1].pc # "idle"
  /\ ~view.loading
  /\ how = "click" => Trim(view.inputMessage) # <<>>
  /\ IF Trim(view.inputMessage) = <<>> \/ view.selectedChat = None
     THEN /\ sm' = [sm EXCEPT ![k].pc = "returned",
                      ![k].inputMessage = view.inputMessage,
                      ![k].selectedChat = view.selectedChat]
          /\ UNCHANGED ci
     ELSE /\ sm' = [sm EXCEPT ![k].pc = "insert",
                      ![k].inputMessage = view.inputMessage,
                      ![k].selectedChat = view.selectedChat,
                      ![k].history = view.messages,
                      ![k].userMessage = Text(Trim(view.inputMessage))]
          /\ ci' = [ci EXCEPT !.inputMessage = <<>>, !.loading = TRUE]
  /\ UNCHANGED <<dbVars, files, bucket, nextId, openaiApiKey, lm, fuVars,
                 dashVars, view, deleted,
                 up, cc>>

\* Mutant: setLoading(false) is the last statement of the try block.
SendInsert_NoFinally(k, ok) ==
  /\ sm[k].pc = "insert"
  /\ LET chatId == sm[k].selectedChat[1]
         row == [ id |-> Uuid(nextId), chat_id |-> chatId, role |-> "user",
                  content |-> sm[k].userMessage ]
         newUserMessage == [role |-> "user", content |-> sm[k].userMessage]
     IN /\ ok => /\ nextId <= MaxIds
                 /\ ChatExists(chatId)
                 /\ MessagePolicy(CurrentUser, row, projects, chats)
        /\ IF ok
           THEN /\ messages' = Append(messages, row)
                /\ nextId' = nextId + 1
                /\ ci' = [ci EXCEPT !.messages = Append(@, newUserMessage)]
                /\ sm' = [sm EXCEPT ![k].pc = "invoke",
                            ![k].body = Some(
                              [ method |-> "POST",
                                messages |-> Some(Append(sm[k].history,
                                                         newUserMessage)),
                                chatId |-> chatId,
                                projectId |-> CurrentProject ])]
           ELSE /\ UNCHANGED <<messages, nextId, ci>>
                /\ sm' = [sm EXCEPT ![k].pc = "done",
                            ![k].saveError = TRUE,
                            ![k].toast = Some("Failed to send message")]
  /\ UNCHANGED <<users, profiles, projects, chats, files, bucket,
                 openaiApiKey, lm, fuVars,
                 dashVars, view, deleted, up, cc>>

\* Mutant: saveError is not thrown on.
SendInsert_IgnoresError(k, ok) ==
  /\ sm[k].pc = "insert"
  /\ LET chatId == sm[k].selectedChat[1]
         row == [ id |-> Uuid(nextId), chat_id |-> chatId, role |-> "user",
                  content |-> sm[k].userMessage ]
         newUserMessage == [role |-> "user", content |-> sm[k].userMessage]
     IN /\ ok => /\ nextId <= MaxIds
                 /\ ChatExists(chatId)
                 /\ MessagePolicy(CurrentUser, row, projects, chats)
        /\ IF ok
           THEN messages' = Append(messages, row) /\ nextId' = nextId + 1
           ELSE UNCHANGED <<messages, nextId>>
        /\ ci' = [ci EXCEPT !.messages = Append(@, newUserMessage)]
        /\ sm' = [sm EXCEPT ![k].pc = "invoke",
                    ![k].saveError = ~ok,
                    ![k].body = Some(
                      [ method |-> "POST",
                        messages |-> Some(Append(sm[k].history,
                                                 newUserMessage)),
                        chatId |-> chatId,
                        projectId |-> CurrentProject ])]
  /\ UNCHANGED <<users, profiles, projects, chats, files, bucket,
                 openaiApiKey, lm, fuVars,
                 dashVars, view, deleted, up, cc>>

\* The insert of the user's message returns; on success the handler appends
\* the message to the local list and calls the completion function with the
\* list of its render plus the message; on failure it shows a toast and
\* resets loading.  (The local entries' id and created_at are left out.)
SendInsert(k, ok) ==
  /\ sm[k].pc = "insert"
  /\ LET chatId == sm[k].selectedChat[1]
         row == [ id |-> Uuid(nextId), chat_id |-> chatId, role |-> "user",
                  content |-> sm[k].userMessage ]
         newUserMessage == [role |-> "user", content |-> sm[k].userMessage]
     IN /\ ok => /\ nextId <= MaxIds
                 /\ ChatExists(chatId)
                 /\ MessagePolicy(CurrentUser, row, projects, chats)
        /\ IF ok
           THEN /\ messages' = Append(messages, row)
                /\ nextId' = nextId + 1
                /\ ci' = [ci EXCEPT !.messages = Append(@, newUserMessage)]
                /\ sm' = [sm EXCEPT ![k].pc = "invoke",
                            ![k].body = Some(
                              [ method |-> "POST",
                                messages |-> Some(Append(sm[k].history,
                                                         newUserMessage)),
                                chatId |-> chatId,
                                projectId |-> CurrentProject ])]
           ELSE /\ UNCHANGED <<messages, nextId>>
                /\ ci' = [ci EXCEPT !.loading = FALSE]
                /\ sm' = [sm EXCEPT ![k].pc = "done",
                            ![k].saveError = TRUE,
                            ![k].toast = Some("Failed to send message")]
  /\ UNCHANGED <<users, profiles, projects, chats, files, bucket,
                 openaiApiKey, lm, fuVars,
                 dashVars, view, deleted, up, cc>>

\* The request of supabase.functions.invoke('chat-completion') arrives.
SendDeliver(k) ==
  /\ sm[k].pc = "invoke"
  /\ ChatRecv(k, sm[k].body[1])

\* The completion function has answered: a non-2xx answer is an error of
\* invoke (thrown on, toast), a 2xx answer is appended to the local list;
\* finally setLoading(false).
SendReturn(k) ==
  /\ sm[k].pc = "invoke"
  /\ cc[k].pc = "done"
  /\ IF ResponseOk(cc[k].resp[1].status)
     THEN /\ ci' = [ci EXCEPT !.loading = FALSE,
                      !.messages = Append(@, [role |-> "assistant",
                                       content |-> cc[k].resp[1].message[1]])]
          /\ sm' = [sm EXCEPT ![k].pc = "done"]
     ELSE /\ ci' = [ci EXCEPT !.loading = FALSE]
          /\ sm' = [sm EXCEPT ![k].pc = "done",
                      ![k].toast =
                        Some("Edge Function returned a non-2xx status code")]
  /\ UNCHANGED <<dbVars, files, bucket, nextId, openaiApiKey, lm, fuVars,
                 dashVars, view, deleted,
                 up, cc>>

\* onChatSelect(chat): a click on a chat of the sidebar; the parent sets
\* the selectedChat prop.
SelectChat(c) ==
  /\ c \in { x.id : x \in { y \in SelectChats(CurrentUser, projects, chats) :
                              y.project_id = CurrentProject } }
  /\ ci.selectedChat # Some(c)
  /\ ci' = [ci EXCEPT !.selectedChat = Some(c)]
  /\ UNCHANGED <<dbVars, files, bucket, nextId, openaiApiKey, lm, fuVars,
                 dashVars, view, sm, deleted, up, cc>>

\* select('*').eq('chat_id', selectedChat.id).order('created_at'): the rows
\* of the chat the identity may see, as local entries.
LoadedMessages(chat) ==
  LET rows == KeepRows(messages,
                { m \in SelectMessages(CurrentUser, projects, chats, messages) :
                    m.chat_id = chat })
  IN [ q \in 1 .. Len(rows) |->
         [role |-> rows[q].role, content |-> rows[q].content] ]

\* The select of a loadMessages call returns: setMessages(data || []), or
\* the toast 'Failed to load messages'; finally setLoadingMessages(false).
LoadReturn(l, ok) ==
  /\ l \in lm
  /\ lm' = lm \ {l}
  /\ ci' = IF ok
           THEN [ci EXCEPT !.messages = LoadedMessages(l.chat),
                           !.loadingMessages = FALSE]
           ELSE [ci EXCEPT !.loadingMessages = FALSE]
  /\ UNCHANGED <<dbVars, files, bucket, nextId, openaiApiKey, fuVars,
                 dashVars, view, sm, deleted, up, cc>>

\* What the completion API answers while the component is used: a rate
\* limit or a completion.
SendOutcomes ==
  { o \in CompletionOutcomes : ~o.threw /\ (o.status = 429 \/ o.data # None) }

SendNext ==
  \/ Render
  \/ \E t \in TypedTexts : TypeInput(t)
  \/ \E k \in Sends, how \in {"click", "enter"} : SendStart(k, how)
  \/ \E k \in Sends, ok \in BOOLEAN : SendInsert(k, ok)
  \/ \E k \in Sends : SendDeliver(k)
  \/ \E k \in Sends : ChatFetchProject(k, TRUE)
  \/ \E k \in Sends, o \in SendOutcomes : ChatCallOpenAI(k, o)
  \/ \E k \in Sends, ok \in BOOLEAN : ChatSaveMessage(k, ok)
  \/ \E k \in Sends : SendReturn(k)

\* The component with its chat sidebar.
SelectNext ==
  \/ Render
  \/ \E t \in TypedTexts : TypeInput(t)
  \/ \E k \in Invocations : SendStart(k, "enter")
  \/ \E k \in Invocations : SendInsert(k, TRUE)
  \/ \E k \in Invocations : SendDeliver(k)
  \/ \E k \in Invocations : ChatFetchProject(k, TRUE)
  \/ \E k \in Invocations, o \in SendOutcomes : ChatCallOpenAI(k, o)
  \/ \E k \in Invocations : ChatSaveMessage(k, TRUE)
  \/ \E k \in Invocations : SendReturn(k)
  \/ \E c \in {x.id : x \in chats} : SelectChat(c)
  \/ \E l \in lm, ok \in BOOLEAN : LoadReturn(l, ok)

\* ========================================================================
\* FileUpload (React component)
\* ========================================================================
\* if (file.size > 20 * 1024 * 1024)
MaxUploadSize == 20 * KiB * KiB

\* The component as mounted: const [uploading, setUploading] = useState(false)
FileUploadMounted == [uploading |-> FALSE]

\* The batches react-dropzone hands to onDrop (acceptedFiles).
SmallFile == [name |-> <<"a", ".", "t">>, size |-> 5 * KiB,
              type |-> "text/plain"]
LimitFile == [name |-> <<"b">>, size |-> MirrorLimit, type |-> "image/png"]
LargeFile == [name |-> <<"a", ".", "b", ".">>, size |-> MirrorLimit + 1,
              type |-> "text/plain"]
DropBatches ==
  { <<LargeFile>>, <<LimitFile>>, <<LargeFile, SmallFile>>,
    <<SmallFile, LimitFile>>, <<SmallFile, LargeFile, LimitFile>> }

\* onDrop calls, and the upload invocation of the j-th file of the k-th call
\* (the invocations of the sendMessage calls come first).
Drops == 1 .. MaxInv + 1
BatchLen == MaxInv + 2
Slot(k, j) == MaxInv + 1 + (k - 1) * BatchLen + j
UploadSlots == MaxInv + 2 .. MaxInv + 1 + (MaxInv + 1) * BatchLen
UiSlots == 1 .. MaxInv + 1 + (MaxInv + 1) * BatchLen

DropIdle ==
  [ pc |-> "idle", acceptedFiles |-> <<>>, idx |-> 1, sent |-> {},
    returned |-> {}, toasts |-> <<>>, onFilesChange |-> 0 ]

\* deleteFile calls.
Deletes == 1 .. MaxInv
DeleteIdle ==
  [ pc |-> "idle", file |-> None, storageError |-> FALSE, dbError |-> FALSE,
    toast |-> None, onFilesChange |-> 0 ]

FileUploadInit ==
  /\ fu = FileUploadMounted
  /\ fuView = FileUploadMounted
  /\ drops = [k \in Drops |-> DropIdle]
  /\ dels = [d \in Deletes |-> DeleteIdle]

\* formData: file, projectId (the component's prop), userId (user.id)
DropBody(file) ==
  CHOOSE r \in UploadRequests :
    /\ r.method = "POST"
    /\ r.file = Some(file)
    /\ r.projectId = CurrentProject
    /\ r.userId = CurrentUser

\* Mutant: the invocations of a batch are started without awaiting them.
RECURSIVE DropRun_NoAwait(_)
DropRun_NoAwait(d) ==
  IF d.idx > Len(d.acceptedFiles)
  THEN [d EXCEPT !.pc = "done", !.onFilesChange = @ + 1]
  ELSE IF d.acceptedFiles[d.idx].size > MaxUploadSize
  THEN DropRun_NoAwait([d EXCEPT !.idx = @ + 1,
                          !.toasts = Append(@, "File too large")])
  ELSE [d EXCEPT !.pc = "await",
          !.sent = @ \cup { j \in d.idx .. Len(d.acceptedFiles) :
                             d.acceptedFiles[j].size <= MaxUploadSize }]

\* Mutant: a file over the limit ends the loop.
RECURSIVE DropRun_BreakOnLarge(_)
DropRun_BreakOnLarge(d) ==
  IF d.idx > Len(d.acceptedFiles)
  THEN [d EXCEPT !.pc = "done", !.onFilesChange = @ + 1]
  ELSE IF d.acceptedFiles[d.idx].size > MaxUploadSize
  THEN [d EXCEPT !.pc = "done", !.idx = Len(d.acceptedFiles) + 1,
          !.toasts = Append(@, "File too large"), !.onFilesChange = @ + 1]
  ELSE [d EXCEPT !.pc = "await", !.sent = @ \cup {d.idx}]

\* for (const file of acceptedFiles), from file idx on, up to the next await
\* of supabase.functions.invoke('upload-file') or, past the last file, to
\* onFilesChange() and the end of the try block.
RECURSIVE DropRun(_)
DropRun(d) ==
  IF d.idx > Len(d.acceptedFiles)
  THEN [d EXCEPT !.pc = "done", !.onFilesChange = @ + 1]
  ELSE IF d.acceptedFiles[d.idx].size > MaxUploadSize
  THEN DropRun([d EXCEPT !.idx = @ + 1,
                  !.toasts = Append(@, "File too large")])
  ELSE [d EXCEPT !.pc = "await", !.sent = @ \cup {d.idx}]

\* The files of a batch that onDrop sends to the upload function; each takes
\* two identifiers (object name, row id).
Uploadable(batch) ==
  Cardinality({ j \in 1 .. Len(batch) : batch[j].size <= MaxUploadSize })
RECURSIVE IdsReserved(_)
IdsReserved(ks) ==
  IF ks = {} THEN 0
  ELSE LET k == CHOOSE x \in ks : TRUE
       IN 2 * Uploadable(drops[k].acceptedFiles) + IdsReserved(ks \ {k})

\* The component renders: the dropzone now holds the current state.
FuRender ==
  /\ fuView # fu
  /\ fuView' = fu
  /\ UNCHANGED <<dbVars, files, bucket, nextId, openaiApiKey, ci, view, sm,
                 lm, fu, drops, dels, dashVars, deleted, up, cc>>

\* onDrop, from a drop on the dropzone (disabled: uploading, as the latest
\* render set it) to its first await or, with nothing to send, to its end:
\* setUploading(true), the loop, and finally setUploading(false).
DropStart(k, batch) ==
  /\ drops[k].pc = "idle"
  /\ k > 1 => drops[k - 1].pc # "idle"
  /\ ~fuView.uploading
  /\ IdsReserved(Drops) + 2 * Uploadable(batch) <= MaxIds
  /\ LET d == DropRun([DropIdle EXCEPT !.acceptedFiles = batch])
     IN /\ drops' = [drops EXCEPT ![k] = d]
        /\ fu' = [fu EXCEPT !.uploading = d.pc # "done"]
  /\ UNCHANGED <<dbVars, files, bucket, nextId, openaiApiKey, ci, view, sm,
                 lm, fuView, dels, dashVars, deleted, up, cc>>

\* The request of supabase.functions.invoke('upload-file') arrives.
DropDeliver(k) ==
  /\ drops[k].pc = "await"
  /\ UploadRecv(Slot(k, drops[k].idx),
                DropBody(drops[k].acceptedFiles[drops[k].idx]))

\* The upload function has answered: a non-2xx answer is the error of invoke
\* ('Upload failed'), a 2xx answer is 'File uploaded'; the loop goes on to
\* its next await or to its end and the finally block.
DropReturn(k) ==
  /\ drops[k].pc = "await"
  /\ up[Slot(k, drops[k].idx)].pc = "done"
  /\ LET failed == ~ResponseOk(up[Slot(k, drops[k].idx)].resp[1].status)
         d == DropRun([drops[k] EXCEPT
                 !.returned = @ \cup {drops[k].idx},
                 !.idx = @ + 1,
                 !.toasts = Append(@, IF failed THEN "Upload failed"
                                      ELSE "File uploaded")])
     IN /\ drops' = [drops EXCEPT ![k] = d]
        /\ fu' = IF d.pc = "done" THEN [fu EXCEPT !.uploading = FALSE] ELSE fu
  /\ UNCHANGED <<dbVars, files, bucket, nextId, openaiApiKey, ci, view, sm,
                 lm, fuView, dels, dashVars, deleted, up, cc>>

\* storage.objects policies: auth.uid()::text = (storage.foldername(name))[1]
ObjectPolicy(uid, path) == Head(path) = uid

\* deleteFile(file), called from the delete button of a row of the files
\* list, up to the await on the removal of the object.
DeleteStart(d, f) ==
  /\ dels[d].pc = "idle"
  /\ d > 1 => dels[d - 1].pc # "idle"
  /\ f \in SelectFiles(CurrentUser, projects, files)
  /\ dels' = [dels EXCEPT ![d].pc = "remove", ![d].file = Some(f)]
  /\ UNCHANGED <<dbVars, files, bucket, nextId, openaiApiKey, ci, view, sm,
                 lm, fu, fuView, drops, dashVars, deleted, up, cc>>

\* supabase.storage.from('project-files').remove([file.storage_path])
\* returns; if (storageError) throw storageError (caught: 'Delete failed').
DeleteRemove(d, ok) ==
  /\ dels[d].pc = "remove"
  /\ LET path == dels[d].file[1].storage_path
     IN IF ok
        THEN /\ bucket' = IF ObjectPolicy(CurrentUser, path)
                           THEN bucket \ {path} ELSE bucket
             /\ dels' = [dels EXCEPT ![d].pc = "delete"]
        ELSE /\ UNCHANGED bucket
             /\ dels' = [dels EXCEPT ![d].pc = "done",
                           ![d].storageError = TRUE,
                           ![d].toast = Some("Delete failed")]
  /\ UNCHANGED <<dbVars, files, nextId, openaiApiKey, ci, view, sm, lm, fu,
                 fuView, drops, dashVars, deleted, up, cc>>

\* supabase.from('files').delete().eq('id', file.id) returns; if (dbError)
\* throw dbError; else toast 'File deleted' and onFilesChange().
DeleteRow(d, ok) ==
  /\ dels[d].pc = "delete"
  /\ IF ok
     THEN /\ files' = files \
                { g \in SelectFiles(CurrentUser, projects, files) :
                    g.id = dels[d].file[1].id }
          /\ dels' = [dels EXCEPT ![d].pc = "done",
                        ![d].toast = Some("File deleted"),
                        ![d].onFilesChange = @ + 1]
     ELSE /\ UNCHANGED files
          /\ dels' = [dels EXCEPT ![d].pc = "done", ![d].dbError = TRUE,
                        ![d].toast = Some("Delete failed")]
  /\ deleted' = RowsGone(projects, chats, messages, files')
  /\ UNCHANGED <<dbVars, bucket, nextId, openaiApiKey, ci, view, sm, lm, fu,
                 fuView, drops, dashVars, up, cc>>

\* The mounted FileUpload of the seeded project and the upload function its
\* onDrop invokes.
FileUploadNext ==
  \/ FuRender
  \/ \E k \in Drops, batch \in DropBatches : DropStart(k, batch)
  \/ \E k \in Drops : DropDeliver(k)
  \/ \E i \in UploadSlots, ok \in BOOLEAN : UploadStore(i, ok)
  \/ \E i \in UploadSlots, ok \in BOOLEAN : UploadInsert(i, ok)
  \/ \E i \in UploadSlots, o \in MirrorOutcomes : UploadMirror(i, o)
  \/ \E k \in Drops : DropReturn(k)

\* Files are uploaded through the upload function and deleted with the
\* delete button of the files list.
DeleteFileNext ==
  \/ \E i \in Invocations, file \in UploadFiles :
       UploadRecv(i, DropBody(file))
  \/ \E i \in Invocations, ok \in BOOLEAN : UploadStore(i, ok)
  \/ \E i \in Invocations, ok \in BOOLEAN : UploadInsert(i, ok)
  \/ \E i \in Invocations, o \in MirrorOutcomes : UploadMirror(i, o)
  \/ \E d \in Deletes, f \in files : DeleteStart(d, f)
  \/ \E d \in Deletes, ok \in BOOLEAN : DeleteRemove(d, ok)
  \/ \E d \in Deletes, ok \in BOOLEAN : DeleteRow(d, ok)

\* ========================================================================
\* Dashboard (React component)
\* ========================================================================
\* useAuth().user of the mounted Dashboard.
DashUser == "u2"

\* The component's state.  (projects and chats hold the ids resp. the rows in
\* no order; createProjectOpen and loading are left out.)
DashboardMounted ==
  [ projects |-> {}, selectedProject |-> None, selectedChat |-> None,
    chats |-> {}, files |-> {} ]
DashboardInit ==
  /\ dash = DashboardMounted
  /\ reqs = {}

\* A handler call suspended at its await: which handler, the project it was
\* called for, and the selectedProject of the render it was called in.
Request(kind, pid) ==
  [kind |-> kind, project |-> pid, selectedProject |-> dash.selectedProject]

\* At most this many handler calls are suspended at a time, and a chat is
\* created only while an identifier is left.
MaxPending == MaxInv + 2

\* What is not the Dashboard's nor the database's.
nonDash == <<users, profiles, bucket, openaiApiKey, ci, view, sm, lm, fuVars,
             up, cc>>

\* ProjectCard onSelect={(project) => setSelectedProject(project)} in the
\* project list (shown while no project is selected); the effect on
\* [selectedProject] then calls loadChats() and loadFiles().
SelectProject(p) ==
  /\ dash.selectedProject = None
  /\ p \in dash.projects
  /\ dash' = [dash EXCEPT !.selectedProject = Some(p)]
  /\ reqs' = reqs \cup { [kind |-> "loadChats", project |-> p,
                          selectedProject |-> Some(p)],
                         [kind |-> "loadFiles", project |-> p,
                          selectedProject |-> Some(p)] }
  /\ Cardinality(reqs') <= MaxPending
  /\ UNCHANGED <<dbVars, files, nextId, deleted, nonDash>>

\* The back button of the project view.
Back ==
  /\ dash.selectedProject # None
  /\ dash' = [dash EXCEPT !.selectedProject = None, !.selectedChat = None]
  /\ UNCHANGED <<dbVars, files, nextId, deleted, reqs, nonDash>>

\* onChatSelect={(chat) => setSelectedChat(chat)} over the chats list.
DashChatSelect(c) ==
  /\ dash.selectedProject # None
  /\ c \in dash.chats
  /\ dash.selectedChat # Some(c)
  /\ dash' = [dash EXCEPT !.selectedChat = Some(c)]
  /\ UNCHANGED <<dbVars, files, nextId, deleted, reqs, nonDash>>

\* The select of loadChats returns: setChats(data || []), or a toast.
LoadChatsReturn(r, ok) ==
  /\ r \in reqs /\ r.kind = "loadChats"
  /\ reqs' = reqs \ {r}
  /\ dash' = IF ok
             THEN [dash EXCEPT !.chats =
                     { c \in SelectChats(DashUser, projects, chats) :
                         c.project_id = r.project }]
             ELSE dash
  /\ UNCHANGED <<dbVars, files, nextId, deleted, nonDash>>

\* The select of loadFiles returns: setFiles(data || []), or a toast.
LoadFilesReturn(r, ok) ==
  /\ r \in reqs /\ r.kind = "loadFiles"
  /\ reqs' = reqs \ {r}
  /\ dash' = IF ok
             THEN [dash EXCEPT !.files =
                     { f \in SelectFiles(DashUser, projects, files) :
                         f.project_id = r.project }]
             ELSE dash
  /\ UNCHANGED <<dbVars, files, nextId, deleted, nonDash>>

\* The select of loadProjects returns: setProjects(data || []), or a toast.
LoadProjectsReturn(r, ok) ==
  /\ r \in reqs /\ r.kind = "loadProjects"
  /\ reqs' = reqs \ {r}
  /\ dash' = IF ok
             THEN [dash EXCEPT !.projects =
                     { p.id : p \in SelectProjects(DashUser, projects) }]
             ELSE dash
  /\ UNCHANGED <<dbVars, files, nextId, deleted, nonDash>>

\* createNewChat up to its await: if (!selectedProject) return.
CreateNewChat ==
  /\ dash.selectedProject # None
  /\ Request("createNewChat", dash.selectedProject[1]) \notin reqs
  /\ reqs' = reqs \cup {Request("createNewChat", dash.selectedProject[1])}
  /\ Cardinality(reqs') <= MaxPending
  /\ nextId <= MaxIds
  /\ UNCHANGED <<dbVars, files, nextId, deleted, dash, nonDash>>

\* The insert of createNewChat returns: setChats(prev => [newChat, ...prev])
\* and setSelectedChat(newChat), or a toast.
CreateNewChatReturn(r, ok) ==
  /\ r \in reqs /\ r.kind = "createNewChat"
  /\ reqs' = reqs \ {r}
  /\ LET newChat == [id |-> Uuid(nextId), project_id |-> r.project]
     IN /\ ok => /\ nextId <= MaxIds
                 /\ ProjectExists(r.project)
                 /\ ChatPolicy(DashUser, newChat, projects)
        /\ IF ok
           THEN /\ chats' = chats \cup {newChat}
                /\ nextId' = nextId + 1
                /\ dash' = [dash EXCEPT !.chats = @ \cup {newChat},
                                        !.selectedChat = Some(newChat)]
           ELSE UNCHANGED <<chats, nextId, dash>>
  /\ UNCHANGED <<users, profiles, projects, messages, files, deleted,
                 bucket, openaiApiKey, ci, view, sm, lm, fuVars, up, cc>>

\* ProjectCard onDelete={deleteProject} in the project list, up to the await.
DeleteProject(p) ==
  /\ dash.selectedProject = None
  /\ p \in dash.projects
  /\ reqs' = reqs \cup {Request("deleteProject", p)}
  /\ Cardinality(reqs') <= MaxPending
  /\ UNCHANGED <<dbVars, files, nextId, deleted, dash, nonDash>>

\* The delete of deleteProject returns: the row and, by the cascade, its
\* chats, messages and files are gone; the selection is reset if the
\* handler's selectedProject is the deleted project; loadProjects() is
\* called.  On an error only a toast.
DeleteProjectReturn(r, ok) ==
  /\ r \in reqs /\ r.kind = "deleteProject"
  /\ LET gone == { p.id : p \in { q \in SelectProjects(DashUser, projects) :
                                   q.id = r.project } }
         goneChats == { c.id : c \in { d \in chats : d.project_id \in gone } }
     IN IF ok
        THEN /\ projects' = { p \in projects : p.id \notin gone }
             /\ chats' = ChatsAfterDelete(gone)
             /\ messages' = MessagesAfterDelete(goneChats)
             /\ files' = FilesAfterDelete(gone)
             /\ deleted' = RowsGone(projects', chats', messages', files')
             /\ dash' = IF r.selectedProject = Some(r.project)
                        THEN [dash EXCEPT !.selectedProject = None,
                                          !.selectedChat = None]
                        ELSE dash
             /\ reqs' = (reqs \ {r}) \cup
                          { [kind |-> "loadProjects", project |-> "",
                             selectedProject |-> None] }
        ELSE /\ reqs' = reqs \ {r}
             /\ UNCHANGED <<projects, chats, messages, files, deleted, dash>>
  /\ UNCHANGED <<nextId, nonDash>>

DashboardNext ==
  \/ \E p \in dash.projects : SelectProject(p)
  \/ Back
  \/ \E c \in dash.chats : DashChatSelect(c)
  \/ CreateNewChat
  \/ \E p \in dash.projects : DeleteProject(p)
  \/ \E r \in reqs, ok \in BOOLEAN : LoadChatsReturn(r, ok)
  \/ \E r \in reqs, ok \in BOOLEAN : LoadFilesReturn(r, ok)
  \/ \E r \in reqs, ok \in BOOLEAN : LoadProjectsReturn(r, ok)
  \/ \E r \in reqs, ok \in BOOLEAN : CreateNewChatReturn(r, ok)
  \/ \E r \in reqs, ok \in BOOLEAN : DeleteProjectReturn(r, ok)

\* ========================================================================
\* specifications
\* ========================================================================
\* The deployed system with the seeded rows, no invocation started; the
\* mirror / completion API key is configured or not.
InitRelay ==
  /\ users = SeedUsers
  /\ profiles = SeedProfiles
  /\ projects = SeedProjects
  /\ chats = SeedChats
  /\ messages = <<>>
  /\ files = {}
  /\ bucket = {}
  /\ nextId = 1
  /\ openaiApiKey \in {"", "sk-key"}
  /\ deleted = NoRows
  /\ ci = ChatInterfaceMounted /\ view = ChatInterfaceMounted
  /\ sm = [k \in Sends |-> SendIdle]
  /\ lm = {}
  /\ FileUploadInit
  /\ DashboardInit
  /\ up = [i \in Invocations |-> UploadIdle]
  /\ cc = [i \in Invocations |-> ChatIdle]

\* The database right after the migration: every table empty.
InitDb ==
  /\ users = {}
  /\ profiles = {}
  /\ projects = {}
  /\ chats = {}
  /\ messages = <<>>
  /\ files = {}
  /\ bucket = {}
  /\ nextId = 1
  /\ openaiApiKey = "sk-key"
  /\ deleted = NoRows
  /\ ci = ChatInterfaceMounted /\ view = ChatInterfaceMounted
  /\ sm = [k \in Sends |-> SendIdle]
  /\ lm = {}
  /\ FileUploadInit
  /\ DashboardInit
  /\ up = [i \in Invocations |-> UploadIdle]
  /\ cc = [i \in Invocations |-> ChatIdle]

SpecDb == InitDb /\ [][DbNext]_vars

SpecUpload == InitRelay /\ [][UploadNext]_vars

SpecChat == InitRelay /\ [][ChatNext]_vars

\* Both functions: every invocation is a request to one of the two.
RelayNext == UploadNext \/ ChatNext
SpecRelay == InitRelay /\ [][RelayNext]_vars

\* Everything that touches messages: the client's statements on messages
\* under row-level security, ChatInterface.sendMessage's insert among them,
\* the deletes that cascade to messages, and the completion function asked
\* for a reply in the seeded chat.
MessagesRequests ==
  { r \in ChatRequests :
      /\ r.method = "POST" /\ r.chatId = "c1" /\ r.projectId \in {"p1", "p2"}
      /\ r.messages # None /\ Len(r.messages[1]) = 1 }
MessagesNext ==
  \/ \E uid \in Identities, c \in chats : MessageInsert(uid, c.id, "user", "hi")
  \/ \E uid \in Identities, m \in Range(messages) :
       MessageUpdate(uid, m.id, "edited")
  \/ \E uid \in Identities, m \in Range(messages) : MessageDelete(uid, m.id)
  \/ \E uid \in Identities, c \in chats : ChatDelete(uid, c.id)
  \/ \E uid \in Identities, p \in projects : ProjectDelete(uid, p.id)
  \/ \E i \in Invocations, r \in MessagesRequests : ChatRecv(i, r)
  \/ \E i \in Invocations, ok \in BOOLEAN : ChatFetchProject(i, ok)
  \/ \E i \in Invocations, o \in CompletionOutcomes : ChatCallOpenAI(i, o)
  \/ \E i \in Invocations, ok \in BOOLEAN : ChatSaveMessage(i, ok)
SpecMessages == InitRelay /\ [][MessagesNext]_vars

\* One request body sent again and again: the client repeats its call, before
\* or after the earlier ones are answered.
Retries == 1 .. MaxInv + 1
RetryBody ==
  [ method |-> "POST",
    messages |-> Some(<< [role |-> "user", content |-> "hi"] >>),
    chatId |-> "c1", projectId |-> "p1" ]
InitRetry ==
  /\ users = SeedUsers
  /\ profiles = SeedProfiles
  /\ projects = SeedProjects
  /\ chats = SeedChats
  /\ messages = <<>>
  /\ files = {}
  /\ bucket = {}
  /\ nextId = 1
  /\ openaiApiKey = "sk-key"
  /\ deleted = NoRows
  /\ ci = ChatInterfaceMounted /\ view = ChatInterfaceMounted
  /\ sm = [k \in Sends |-> SendIdle]
  /\ lm = {}
  /\ FileUploadInit
  /\ DashboardInit
  /\ up = [i \in Retries |-> UploadIdle]
  /\ cc = [i \in Retries |-> ChatIdle]
RetryNext ==
  \/ \E i \in Retries : ChatRecv(i, RetryBody)
  \/ \E i \in Retries, ok \in BOOLEAN : ChatFetchProject(i, ok)
  \/ \E i \in Retries, o \in CompletionOutcomes : ChatCallOpenAI(i, o)
  \/ \E i \in Retries, ok \in BOOLEAN : ChatSaveMessage(i, ok)
SpecRetry == InitRetry /\ [][RetryNext]_vars

\* The mounted ChatInterface of the seeded chat and the completion function
\* its sendMessage calls invoke.
SpecSend == InitRetry /\ [][SendNext]_vars

\* Files are uploaded through the upload function and projects are deleted
\* from the dashboard (Dashboard.deleteProject).
FilesNext ==
  \/ UploadNext
  \/ \E uid \in Identities, p \in projects : ProjectDelete(uid, p.id)
SpecFiles == InitRelay /\ [][FilesNext]_vars

\* The deployed system with the seeded rows and the FileUpload component
\* mounted on the seeded project; an upload invocation for every file of
\* every onDrop call.
InitFileUpload ==
  /\ users = SeedUsers
  /\ profiles = SeedProfiles
  /\ projects = SeedProjects
  /\ chats = SeedChats
  /\ messages = <<>>
  /\ files = {}
  /\ bucket = {}
  /\ nextId = 1
  /\ openaiApiKey = "sk-key"
  /\ deleted = NoRows
  /\ ci = ChatInterfaceMounted /\ view = ChatInterfaceMounted
  /\ sm = [k \in Sends |-> SendIdle]
  /\ lm = {}
  /\ FileUploadInit
  /\ DashboardInit
  /\ up = [i \in UiSlots |-> UploadIdle]
  /\ cc = [i \in UiSlots |-> ChatIdle]
SpecFileUpload == InitFileUpload /\ [][FileUploadNext]_vars
SpecDeleteFile == InitRelay /\ [][DeleteFileNext]_vars

\* The seeded project with a second chat that holds one message; the
\* ChatInterface mounted on the first chat.
InitSelect ==
  /\ users = SeedUsers
  /\ profiles = SeedProfiles
  /\ projects = SeedProjects
  /\ chats = SeedChats \cup {[id |-> "c2", project_id |-> "p1"]}
  /\ messages = << [id |-> "m0", chat_id |-> "c2", role |-> "user",
                    content |-> "old"] >>
  /\ files = {}
  /\ bucket = {}
  /\ nextId = 1
  /\ openaiApiKey = "sk-key"
  /\ deleted = NoRows
  /\ ci = ChatInterfaceMounted /\ view = ChatInterfaceMounted
  /\ sm = [k \in Sends |-> SendIdle]
  /\ lm = {}
  /\ FileUploadInit
  /\ DashboardInit
  /\ up = [i \in Retries |-> UploadIdle]
  /\ cc = [i \in Retries |-> ChatIdle]
SpecSelect == InitSelect /\ [][SelectNext]_vars

\* The Dashboard of identity u2 with its two projects loaded, no project
\* selected; the first project holds a chat and an uploaded file.
DashSeedFile ==
  [ id |-> "f1", project_id |-> "p2", name |-> SmallFile.name,
    size |-> SmallFile.size, type |-> SmallFile.type,
    storage_path |-> FilePath(DashUser, "o1", SmallFile.name) ]
InitDashboard ==
  /\ users = SeedUsers
  /\ profiles = SeedProfiles
  /\ projects = SeedProjects
  /\ chats = SeedChats \cup {[id |-> "c2", project_id |-> "p2"]}
  /\ messages = <<>>
  /\ files = {DashSeedFile}
  /\ bucket = {DashSeedFile.storage_path}
  /\ nextId = MaxIds - MaxInv + 1
  /\ openaiApiKey = "sk-key"
  /\ deleted = NoRows
  /\ ci = ChatInterfaceMounted /\ view = ChatInterfaceMounted
  /\ sm = [k \in Sends |-> SendIdle]
  /\ lm = {}
  /\ FileUploadInit
  /\ dash = [DashboardMounted EXCEPT
               !.projects = { p.id : p \in SelectProjects(DashUser, projects) }]
  /\ reqs = {}
  /\ up = [i \in Invocations |-> UploadIdle]
  /\ cc = [i \in Invocations |-> ChatIdle]
SpecDashboard == InitDashboard /\ [][DashboardNext]_vars

\* The awaited call of invocation i returns (with any of its outcomes) and
\* the handler runs on to its next await or to its response.
UploadStep(i) ==
  \/ \E ok \in BOOLEAN : UploadStore(i, ok)
  \/ \E ok \in BOOLEAN : UploadInsert(i, ok)
  \/ \E o \in MirrorOutcomes : UploadMirror(i, o)
ChatStep(i) ==
  \/ \E ok \in BOOLEAN : ChatFetchProject(i, ok)
  \/ \E o \in CompletionOutcomes : ChatCallOpenAI(i, o)
  \/ \E ok \in BOOLEAN : ChatSaveMessage(i, ok)

\* Both functions, every call they await returning.
FairRelay ==
  /\ SpecRelay
  /\ \A i \in Invocations : WF_vars(UploadStep(i)) /\ WF_vars(ChatStep(i))

\* The chat tab and the files tab of the project view: ChatInterface and
\* FileUpload are the contents of two tabs, of which one is shown, and share
\* no state; the user works in one of them.  Every request the handlers
\* await returns, with any of its outcomes.
ChatTabUnused ==
  /\ \A k \in Sends : sm[k].pc = "idle"
  /\ ci = ChatInterfaceMounted
FilesTabUnused == \A k \in Drops : drops[k].pc = "idle"
UiNext ==
  \/ /\ FilesTabUnused
     /\ \/ Render
        \/ \E t \in TypedTexts : TypeInput(t)
        \/ \E k \in Invocations, how \in {"click", "enter"} : SendStart(k, how)
        \/ \E k \in Invocations, ok \in BOOLEAN : SendInsert(k, ok)
        \/ \E k \in Invocations : SendDeliver(k)
        \/ \E k \in Invocations, ok \in BOOLEAN : ChatFetchProject(k, ok)
        \/ \E k \in Invocations, o \in CompletionOutcomes :
             ChatCallOpenAI(k, o)
        \/ \E k \in Invocations, ok \in BOOLEAN : ChatSaveMessage(k, ok)
        \/ \E k \in Invocations : SendReturn(k)
  \/ /\ ChatTabUnused
     /\ \/ FuRender
        \/ \E k \in Drops, batch \in DropBatches : DropStart(k, batch)
        \/ \E k \in Drops : DropDeliver(k)
        \/ \E i \in UploadSlots, ok \in BOOLEAN : UploadStore(i, ok)
        \/ \E i \in UploadSlots, ok \in BOOLEAN : UploadInsert(i, ok)
        \/ \E i \in UploadSlots,
              o \in { m \in MirrorOutcomes : m.threw \/ m.body # None } :
             UploadMirror(i, o)
        \/ \E k \in Drops : DropReturn(k)
SendStep(k) ==
  \/ \E ok \in BOOLEAN : SendInsert(k, ok)
  \/ SendDeliver(k)
  \/ SendReturn(k)
DropStep(k) == DropDeliver(k) \/ DropReturn(k)
FairUi ==
  /\ InitFileUpload /\ [][UiNext]_vars
  /\ \A k \in Invocations : WF_vars(SendStep(k)) /\ WF_vars(ChatStep(k))
  /\ \A k \in Drops : WF_vars(DropStep(k))
  /\ \A i \in UploadSlots : WF_vars(UploadStep(i))

\* ========================================================================
\* properties
\* ========================================================================
Count(q, x) == Cardinality({ k \in 1 .. Len(q) : q[k] = x })

IsErrorEnvelope(resp) ==
  resp # None /\ resp[1].status = 500 /\ resp[1].error # None

\* C1: a POST to the upload function that lacks file, projectId or userId,
\* and a POST to the completion function that lacks messages, chatId or
\* projectId, ends with an {error} envelope with status 500, having made no
\* storage write, no row insert and no third-party call.  (The CORS
\* preflight, which carries no fields by protocol, is answered before the
\* body is read and is not such a request.)
C1_MissingFieldRejected ==
  /\ \A i \in Invocations :
       LET v == up[i] IN
       ( /\ v.pc # "idle"
         /\ v.req.method = "POST"
         /\ (v.req.file = None \/ v.req.projectId = "" \/ v.req.userId = "") )
       => /\ v.pc = "done"
          /\ IsErrorEnvelope(v.resp)
          /\ v.resp[1].file = None /\ v.resp[1].message = None
          /\ v.calls = <<>>
          /\ v.fileData = None
  /\ \A i \in Invocations :
       LET v == cc[i] IN
       ( /\ v.pc # "idle"
         /\ v.req.method = "POST"
         /\ (v.req.messages = None \/ v.req.chatId = "" \/ v.req.projectId = "") )
       => /\ v.pc = "done"
          /\ IsErrorEnvelope(v.resp)
          /\ v.resp[1].message = None
          /\ v.calls = <<>>
          /\ v.saved = None
  /\ (\A i \in Invocations : up[i].calls = <<>> /\ cc[i].calls = <<>>)
       => files = {} /\ bucket = {} /\ messages = <<>>

\* A POST with file and projectId but no userId has been answered.
C1_Witness ==
  \E i \in Invocations :
    /\ up[i].pc = "done"
    /\ up[i].req.method = "POST"
    /\ up[i].req.file # None /\ up[i].req.projectId = "p1"
    /\ up[i].req.userId = ""
    /\ up[i].resp =
         Some(UploadError("Missing required parameters: file, projectId, and userId"))
    /\ files = {} /\ bucket = {}

\* C2: a completion invocation that answers with {message, usage} has made
\* its message insert exactly once, as its last call before the response,
\* and that insert wrote one row with role 'assistant', the supplied chatId
\* and the returned message as content; the assistant rows in the table are
\* exactly the rows written by such inserts; when the insert fails the
\* response is an {error} envelope that does not carry the reply.
C2_ReplyPersistedBeforeReturned ==
  /\ \A i \in Invocations :
       LET v == cc[i] IN
       (v.resp # None /\ v.resp[1].status = 200 /\ v.req.method = "POST")
       => /\ v.resp[1].message # None
          /\ Count(v.calls, "messages.insert") = 1
          /\ v.calls[Len(v.calls)] = "messages.insert"
          /\ v.saved # None
          /\ v.saved[1].role = "assistant"
          /\ v.saved[1].chat_id = v.req.chatId
          /\ Some(v.saved[1].content) = v.resp[1].message
          /\ Cardinality({ k \in 1 .. Len(messages) :
                             messages[k] = v.saved[1] }) = 1
  /\ Len(messages) =
       Cardinality({ i \in Invocations :
                       cc[i].resp # None /\ cc[i].resp[1].status = 200
                       /\ cc[i].req.method = "POST" })
  /\ \A i \in Invocations :
       cc[i].messageError
       => /\ IsErrorEnvelope(cc[i].resp)
          /\ cc[i].resp[1].message = None
          /\ cc[i].resp[1].error # Some(cc[i].reply[1].content)
          /\ cc[i].saved = None

\* A reply has been stored and returned.
C2_Witness ==
  \E i \in Invocations :
    /\ cc[i].pc = "done"
    /\ cc[i].resp = Some(ChatSuccess("hello", "usage-1"))
    /\ cc[i].req.chatId = "c1"
    /\ Len(messages) = 1
    /\ messages[1].role = "assistant" /\ messages[1].chat_id = "c1"
    /\ messages[1].content = "hello"

\* C3: when the completion API answers with a status outside 200-299, the
\* response has status 500 and the error "OpenAI API error: <status> <body>",
\* and the invocation inserts no message row.
C3_UpstreamErrorSurfaced ==
  \A i \in Invocations :
    LET v == cc[i] IN
    ( /\ v.upstream # None
      /\ ~v.upstream[1].threw
      /\ (v.upstream[1].status < 200 \/ v.upstream[1].status > 299) )
    => /\ v.pc = "done"
       /\ v.resp # None
       /\ v.resp[1].status = 500
       /\ v.resp[1].error =
            Some("OpenAI API error: " \o ToString(v.upstream[1].status)
                 \o " " \o v.upstream[1].text)
       /\ v.upstream[1].status = 429 /\ v.upstream[1].text = "rate limited"
            => v.resp[1].error = Some("OpenAI API error: 429 rate limited")
       /\ v.resp[1].message = None
       /\ Count(v.calls, "messages.insert") = 0
       /\ v.saved = None
       /\ \A k \in 1 .. Len(messages) :
            \E j \in Invocations \ {i} : cc[j].saved = Some(messages[k])

\* The completion API has answered 429.
C3_Witness ==
  \E i \in Invocations :
    /\ cc[i].upstream # None
    /\ cc[i].upstream[1].status = 429
    /\ cc[i].resp = Some(ChatError("OpenAI API error: 429 rate limited"))
    /\ messages = <<>>

\* The project a completion request names.
ProjectOf(pid) == CHOOSE p \in projects : p.id = pid

\* C4 as stated: for every history m and every stored prompt p the array
\* sent upstream is [{role:'system', content:p}] followed by m.
C4_SystemEntryIsStoredPrompt ==
  \A i \in Invocations :
    cc[i].sent # None =>
      LET m == cc[i].req.messages[1]
          s == cc[i].sent[1]
      IN /\ Len(s) = Len(m) + 1
         /\ s[1].role = "system"
         /\ Some(s[1].content) = ProjectOf(cc[i].req.projectId).system_prompt
         /\ \A k \in 1 .. Len(m) : s[k + 1] = m[k]

\* C4 amended: the array sent upstream is one system entry followed by m in
\* unchanged order; the system entry holds the stored prompt p when p is a
\* non-empty text, and 'You are a helpful AI assistant.' when p is empty or
\* NULL.
C4_SystemEntryIsPromptOrDefault ==
  \A i \in Invocations :
    cc[i].sent # None =>
      LET m == cc[i].req.messages[1]
          s == cc[i].sent[1]
          p == ProjectOf(cc[i].req.projectId).system_prompt
      IN /\ Len(s) = Len(m) + 1
         /\ s[1].role = "system"
         /\ (p # None /\ p # Some("")) => Some(s[1].content) = p
         /\ (p = None \/ p = Some(""))
              => s[1].content = "You are a helpful AI assistant."
         /\ \A k \in 1 .. Len(m) : s[k + 1] = m[k]

\* The three-message history has been sent for the project whose prompt is
\* "You are terse.".
C4_Witness ==
  \E i \in Invocations :
    /\ cc[i].req.projectId = "p1"
    /\ cc[i].sent =
         Some(<< [role |-> "system", content |-> "You are terse."],
                 [role |-> "user", content |-> "hi"],
                 [role |-> "assistant", content |-> "hello"],
                 [role |-> "user", content |-> "hi"] >>)

\* C5: a finished upload invocation has made exactly one mirror call when
\* the storage write and the metadata insert succeeded, a key is configured
\* and the file has at most 20 * 1024 * 1024 bytes, and none otherwise.
C5_MirrorCalledOnceOrNever ==
  \A i \in Invocations :
    LET v == up[i] IN
    /\ Count(v.calls, "openai.files") <= 1
    /\ (v.pc = "done" /\ v.req.method = "POST") =>
         Count(v.calls, "openai.files") =
           IF /\ v.req.file # None
              /\ Count(v.calls, "storage.upload") = 1 /\ ~v.uploadError
              /\ Count(v.calls, "files.insert") = 1 /\ ~v.fileError
              /\ openaiApiKey # ""
              /\ v.req.file[1].size <= 20 * 1024 * 1024
           THEN 1 ELSE 0

\* A file of exactly 20 MiB has been mirrored.
C5_Witness ==
  \E i \in Invocations :
    /\ up[i].pc = "done"
    /\ up[i].req.file # None
    /\ up[i].req.file[1].size = 20 * 1024 * 1024
    /\ up[i].calls = <<"storage.upload", "files.insert", "openai.files">>

\* C6: when the mirror call throws or answers outside 200-299 the response
\* is still the success payload with the inserted File row and openaiFileId
\* null, and the object and the row are still there; openaiFileId is
\* non-null only after a 2xx answer of the mirror call.
C6_MirrorFailureSwallowed ==
  \A i \in Invocations :
    LET v == up[i] IN
    /\ ( v.mirror # None
         /\ (v.mirror[1].threw \/ v.mirror[1].status < 200
             \/ v.mirror[1].status > 299) )
       => /\ v.pc = "done"
          /\ v.resp # None
          /\ v.resp[1].status = 200
          /\ v.resp[1].error = None
          /\ v.resp[1].message = Some("File uploaded successfully")
          /\ v.resp[1].file # None
          /\ v.resp[1].file = v.fileData
          /\ v.resp[1].openaiFileId = None
          /\ v.resp[1].file[1] \in files
          /\ v.resp[1].file[1].storage_path \in bucket
    /\ (v.resp # None /\ v.resp[1].openaiFileId # None)
       => /\ v.mirror # None
          /\ ~v.mirror[1].threw
          /\ v.mirror[1].status >= 200 /\ v.mirror[1].status <= 299

\* The mirror call threw and the caller got the success payload.
C6_Witness ==
  \E i \in Invocations :
    /\ up[i].mirror # None /\ up[i].mirror[1].threw
    /\ up[i].resp # None
    /\ up[i].resp[1].status = 200
    /\ up[i].resp[1].file # None
    /\ up[i].resp[1].openaiFileId = None

\* C7: the File row of a successful upload has the supplied projectId, the
\* file's name, size and MIME type, and a storage_path that starts with
\* "<userId>/" and is the key the object was written under.
C7_FileRowMatchesUpload ==
  \A i \in Invocations :
    LET v == up[i] IN
    (v.resp # None /\ v.resp[1].status = 200 /\ v.req.method = "POST") =>
      /\ v.resp[1].file # None
      /\ LET row == v.resp[1].file[1] IN
         /\ row \in files
         /\ row.project_id = v.req.projectId
         /\ row.name = v.req.file[1].name
         /\ row.size = v.req.file[1].size
         /\ row.type = v.req.file[1].type
         /\ Len(row.storage_path) > 2
         /\ row.storage_path[1] = v.req.userId
         /\ row.storage_path[2] = "/"
         /\ row.storage_path = v.filePath
         /\ row.storage_path \in bucket
         /\ Count(v.calls, "storage.upload") = 1

\* The 5 KB text file has been uploaded by u1 into p1.
C7_Witness ==
  \E i \in Invocations :
    /\ up[i].pc = "done"
    /\ up[i].req.userId = "u1"
    /\ up[i].resp # None
    /\ up[i].resp[1].file # None
    /\ up[i].resp[1].file[1].project_id = "p1"
    /\ up[i].resp[1].file[1].size = 5120
    /\ up[i].resp[1].file[1].type = "text/plain"
    /\ up[i].resp[1].file[1].storage_path = <<"u1", "/", "id1", ".", "t">>
    /\ bucket = { <<"u1", "/", "id1", ".", "t">> }

\* The identities that own a project / the project of a chat, by the joins
\* of the schema.
OwnersOfProject(pid) == { p.user_id : p \in { q \in projects : q.id = pid } }
OwnersOfChat(cid) ==
  UNION { OwnersOfProject(c.project_id) : c \in { d \in chats : d.id = cid } }

\* C8: for distinct identities A and B, a select issued as B over projects,
\* chats, messages or files returns no row whose owning project belongs to
\* A (such rows are filtered out, the result being a possibly empty set of
\* rows), and B's results are the same as over a database from which all
\* rows owned by A are removed.
C8_SelectIsolatesOwners ==
  \A A \in Identities, B \in Identities :
    A # B =>
      /\ \A p \in SelectProjects(B, projects) : p.user_id # A
      /\ \A c \in SelectChats(B, projects, chats) :
           A \notin OwnersOfProject(c.project_id)
      /\ \A m \in SelectMessages(B, projects, chats, messages) :
           A \notin OwnersOfChat(m.chat_id)
      /\ \A f \in SelectFiles(B, projects, files) :
           A \notin OwnersOfProject(f.project_id)
      /\ LET projs0 == { p \in projects : p.user_id # A }
             chs0 == { c \in chats : A \notin OwnersOfProject(c.project_id) }
             msgs0 == KeepRows(messages,
                        { m \in Range(messages) :
                            A \notin OwnersOfChat(m.chat_id) })
             fs0 == { f \in files : A \notin OwnersOfProject(f.project_id) }
         IN /\ SelectProjects(B, projs0) = SelectProjects(B, projects)
            /\ SelectChats(B, projs0, chs0) = SelectChats(B, projects, chats)
            /\ SelectMessages(B, projs0, chs0, msgs0) =
                 SelectMessages(B, projects, chats, messages)
            /\ SelectFiles(B, projs0, fs0) = SelectFiles(B, projects, files)

\* u1 owns a project with a chat, a message and a file; u2 is registered
\* and every select issued as u2 is empty, every select as u1 is not.
C8_Witness ==
  /\ users = {"u1", "u2"}
  /\ \A p \in projects : p.user_id = "u1"
  /\ projects # {} /\ chats # {} /\ messages # <<>> /\ files # {}
  /\ SelectProjects("u2", projects) = {}
  /\ SelectChats("u2", projects, chats) = {}
  /\ SelectMessages("u2", projects, chats, messages) = {}
  /\ SelectFiles("u2", projects, files) = {}
  /\ SelectProjects("u1", projects) = projects
  /\ SelectChats("u1", projects, chats) = chats
  /\ SelectMessages("u1", projects, chats, messages) = Range(messages)
  /\ SelectFiles("u1", projects, files) = files

\* C9: when the bucket write fails the invocation ends with the error
\* "Failed to upload file to storage" and status 500, having attempted the
\* write once, inserted no File row and made no mirror call.
C9_StorageFailureStops ==
  \A i \in Invocations :
    LET v == up[i] IN
    v.uploadError =>
      /\ v.pc = "done"
      /\ v.resp = Some([ status |-> 500,
                         error |-> Some("Failed to upload file to storage"),
                         file |-> None, openaiFileId |-> None,
                         message |-> None ])
      /\ v.calls = <<"storage.upload">>
      /\ v.fileData = None
      /\ \A f \in files : f.storage_path # v.filePath

\* The bucket write of an otherwise valid upload has failed.
C9_Witness ==
  \E i \in Invocations :
    /\ up[i].uploadError
    /\ up[i].req.projectId = "p1"
    /\ up[i].pc = "done"
    /\ files = {} /\ bucket = {}

\* C10: when the bucket write succeeded and the metadata insert fails, the
\* invocation ends with the error "Failed to save file metadata" and status
\* 500, no File row references the object, and the object is still in the
\* bucket.
C10_InsertFailureLeavesOrphan ==
  \A i \in Invocations :
    LET v == up[i] IN
    v.fileError =>
      /\ v.pc = "done"
      /\ v.resp = Some([ status |-> 500,
                         error |-> Some("Failed to save file metadata"),
                         file |-> None, openaiFileId |-> None,
                         message |-> None ])
      /\ v.calls = <<"storage.upload", "files.insert">>
      /\ ~v.uploadError
      /\ v.fileData = None
      /\ \A f \in files : f.storage_path # v.filePath
      /\ v.filePath \in bucket

\* A bucket object that no File row references.
C10_Witness ==
  \E i \in Invocations :
    /\ up[i].fileError
    /\ up[i].pc = "done"
    /\ \E key \in bucket :
         key = up[i].filePath /\ \A f \in files : f.storage_path # key

\* C11: in every state of the database every chat references an existing
\* project, every message an existing chat and every file an existing
\* project; a DELETE of a project leaves none of its chats, their messages
\* or its files behind in the state it produces.
C11_ReferencesExist ==
  /\ \A c \in chats : ProjectExists(c.project_id)
  /\ \A m \in Range(messages) : ChatExists(m.chat_id)
  /\ \A f \in files : ProjectExists(f.project_id)
  /\ \A c \in chats : c.project_id \notin deleted.projects
  /\ \A f \in files : f.project_id \notin deleted.projects
  /\ \A m \in Range(messages) : m.chat_id \notin deleted.chats

\* A project was deleted and took a chat, a message and a file with it.
C11_Witness ==
  /\ deleted.projects # {}
  /\ deleted.chats # {}
  /\ deleted.messages # {}
  /\ deleted.files # {}

\* C12: every POST invocation of either function ends, once the calls it
\* awaits return, with one response that is never replaced: the success
\* payload with status 200 or the envelope {error} with status 500; and it
\* issues each of its external calls at most once.
C12_UploadResponse(v) ==
  /\ (v.resp # None) <=> (v.pc = "done")
  /\ (v.resp # None /\ v.req.method = "POST")
       => \/ IsErrorEnvelope(v.resp) /\ v.resp[1] = UploadError(v.resp[1].error[1])
          \/ /\ v.fileData # None
             /\ v.resp[1] = UploadSuccess(v.fileData, v.resp[1].openaiFileId)
  /\ \A call \in {"storage.upload", "files.insert", "openai.files"} :
       Count(v.calls, call) <= 1
  /\ Len(v.calls) <= 3

C12_ChatResponse(v) ==
  /\ (v.resp # None) <=> (v.pc = "done")
  /\ (v.resp # None /\ v.req.method = "POST")
       => \/ IsErrorEnvelope(v.resp) /\ v.resp[1] = ChatError(v.resp[1].error[1])
          \/ /\ v.reply # None
             /\ v.resp[1] = ChatSuccess(v.reply[1].content, v.reply[1].usage)
  /\ \A call \in {"projects.select", "openai.chat", "messages.insert"} :
       Count(v.calls, call) <= 1
  /\ Len(v.calls) <= 3

C12_OneResponseEachCallOnce ==
  /\ [](\A i \in Invocations :
          C12_UploadResponse(up[i]) /\ C12_ChatResponse(cc[i]))
  /\ [][\A i \in Invocations :
          /\ up[i].resp # None => up'[i].resp = up[i].resp
          /\ cc[i].resp # None => cc'[i].resp = cc[i].resp]_vars
  /\ \A i \in Invocations :
       /\ (up[i].pc # "idle") ~> (up[i].pc = "done")
       /\ (cc[i].pc # "idle") ~> (cc[i].pc = "done")

\* A completion invocation has made its three calls and has answered with
\* the envelope of a failed insert.
C12_Witness ==
  \E i \in Invocations :
    /\ cc[i].pc = "done"
    /\ cc[i].calls = <<"projects.select", "openai.chat", "messages.insert">>
    /\ cc[i].resp = Some(ChatError("Failed to save assistant message"))

\* C13: no step of the client under row-level security or of the completion
\* function changes or removes a message whose chat survives the step: the
\* rows of the surviving chats stay, unchanged and in order, at the front
\* of the table and new rows come after them; a row disappears only in a
\* step that deletes its chat (directly or with its project).
C13_MessagesAppendOnly ==
  [][LET kept == KeepRows(messages,
                   { m \in Range(messages) :
                       \E c \in chats' : c.id = m.chat_id })
     IN /\ Len(messages') >= Len(kept)
        /\ SubSeq(messages', 1, Len(kept)) = kept
        /\ \A m \in Range(messages) :
             (\E c \in chats' : c.id = m.chat_id)
             \/ (\A n \in Range(messages') : n.id # m.id)]_vars

\* The chat was deleted and took with it a row the client inserted and a
\* row the completion function inserted.
C13_Witness ==
  /\ deleted.chats = {"c1"}
  /\ Cardinality(deleted.messages) >= 2
  /\ \E i \in Invocations :
       cc[i].saved # None /\ cc[i].saved[1].id \in deleted.messages
  /\ messages = <<>>

\* C14: in every state of the database each registered identity has exactly
\* one profile, the one whose user_id is the identity's id, and no profile
\* belongs to an identity that is not registered.
C14_OneProfilePerIdentity ==
  /\ \A u \in users : Cardinality({ p \in profiles : p.user_id = u }) = 1
  /\ \A p \in profiles : p.user_id \in users
  /\ Cardinality(profiles) = Cardinality(users)

\* Both identities have registered and the trigger has made their profiles.
C14_Witness ==
  /\ users = {"u1", "u2"}
  /\ profiles = { [id |-> ProfileId(u), user_id |-> u] : u \in users }
  /\ projects # {}

\* C15: a completion invocation makes its calls in the order project fetch,
\* completion API, message insert, after the validation; it calls the
\* completion API only when the project fetch succeeded and inserts only
\* when the API answered 2xx; when the project fetch fails it answers
\* {error}, has not called the API and has inserted nothing.
C15_FixedOrder ==
  \A i \in Invocations :
    LET v == cc[i]
        order == <<"projects.select", "openai.chat", "messages.insert">>
    IN /\ Len(v.calls) <= 3
       /\ v.calls = SubSeq(order, 1, Len(v.calls))
       /\ v.calls # <<>> => v.req.method = "POST" /\ ~ChatMissing(v.req)
       /\ Count(v.calls, "openai.chat") = 1
            => ~v.projectError /\ v.sent # None
       /\ Count(v.calls, "messages.insert") = 1
            => /\ v.upstream # None
               /\ ~v.upstream[1].threw
               /\ ResponseOk(v.upstream[1].status)
       /\ (v.resp # None /\ v.resp[1].status = 200 /\ v.req.method = "POST")
            => v.calls = order
       /\ v.projectError
            => /\ v.pc = "done"
               /\ IsErrorEnvelope(v.resp)
               /\ v.calls = <<"projects.select">>
               /\ v.upstream = None
               /\ v.saved = None
               /\ \A k \in 1 .. Len(messages) :
                    \E j \in Invocations \ {i} : cc[j].saved = Some(messages[k])

\* The fetch of an existing project has failed and the invocation has
\* answered.
C15_Witness ==
  \E i \in Invocations :
    /\ cc[i].projectError
    /\ cc[i].req.projectId = "p1"
    /\ cc[i].resp = Some(ChatError("Failed to fetch project details"))

\* C16: of the invocations sent one and the same body, one after the other
\* or interleaved, every one that answers with success has called the
\* completion API once and has inserted a row of its own: the chat holds as
\* many assistant rows, equal but for their ids, as invocations succeeded.
C16_Succeeded == { i \in Retries : cc[i].resp # None /\ cc[i].resp[1].status = 200 }

C16_EveryInvocationInserts ==
  /\ \A i \in Retries : cc[i].pc # "idle" => cc[i].req = RetryBody
  /\ Len(messages) = Cardinality(C16_Succeeded)
  /\ \A i \in C16_Succeeded :
       /\ Count(cc[i].calls, "openai.chat") = 1
       /\ cc[i].saved # None
       /\ Count(messages, cc[i].saved[1]) = 1
  /\ \A i, j \in C16_Succeeded :
       i # j => /\ cc[i].saved[1].id # cc[j].saved[1].id
                /\ [cc[i].saved[1] EXCEPT !.id = ""]
                     = [cc[j].saved[1] EXCEPT !.id = ""]

\* Every one of the repeated invocations has succeeded: the chat holds the
\* same reply more than once.
C16_Witness ==
  /\ C16_Succeeded = Retries
  /\ Len(messages) >= 2
  /\ messages[1].content = messages[2].content
  /\ messages[1].id # messages[2].id

\* C17: neither function relates the ids it is given to one another or to
\* an owner.  Whenever the project named by projectId exists its fetch can
\* succeed, and whenever the chat named by chatId exists the insert can
\* succeed and puts the reply in that chat, whatever project the chat is in;
\* whenever the project named by projectId exists the file row can be
\* inserted for it, with the object stored under "userId/", whoever owns
\* the project.
C17_NoOwnershipCheck ==
  \A i \in Invocations :
    /\ (cc[i].pc = "fetch" /\ ProjectExists(cc[i].req.projectId))
         => ENABLED ChatFetchProject(i, TRUE)
    /\ (cc[i].pc = "save" /\ ChatExists(cc[i].req.chatId) /\ nextId <= MaxIds)
         => ENABLED ChatSaveMessage(i, TRUE)
    /\ cc[i].saved # None => cc[i].saved[1].chat_id = cc[i].req.chatId
    /\ (up[i].pc = "upload" /\ up[i].filePath \notin bucket)
         => ENABLED UploadStore(i, TRUE)
    /\ ( /\ up[i].pc = "insert" /\ ProjectExists(up[i].req.projectId)
         /\ nextId <= MaxIds )
         => ENABLED UploadInsert(i, TRUE)
    /\ up[i].fileData # None
         => /\ up[i].fileData[1].project_id = up[i].req.projectId
            /\ up[i].filePath[1] = up[i].req.userId
            /\ up[i].fileData[1].storage_path = up[i].filePath

\* A reply was stored in chat c1, of project p1 of identity u1, by an
\* invocation that named project p2 of identity u2 and sent p2's prompt.
C17_Witness ==
  \E i \in Invocations :
    /\ cc[i].req.chatId = "c1" /\ cc[i].req.projectId = "p2"
    /\ cc[i].resp # None /\ cc[i].resp[1].status = 200
    /\ cc[i].sent[1][1].content = DefaultPrompt
    /\ \E m \in Range(messages) : m.chat_id = "c1" /\ Some(m) = cc[i].saved
    /\ \E c \in chats : c.id = "c1" /\ c.project_id = "p1"
    /\ \E p \in projects : p.id = "p1" /\ p.user_id = "u1"
    /\ \E p \in projects : p.id = "p2" /\ p.user_id = "u2"

\* C18 as claimed: whenever a call of an invocation has failed, the error of
\* the response is the message of the failing service.
C18_FailureSurfacedVerbatim ==
  \A i \in Invocations :
    /\ (up[i].pc = "done" /\ up[i].cause # None)
         => up[i].resp[1].error = up[i].cause
    /\ (cc[i].pc = "done" /\ cc[i].cause # None)
         => cc[i].resp[1].error = cc[i].cause

\* C18: a failed storage write, metadata insert, project fetch or message
\* insert is answered with the handler's own fixed message for that step,
\* which is not the message of the failing service; a non-2xx answer of the
\* completion API is answered with "OpenAI API error: <status> <body>"; a
\* thrown completion fetch or an unparsable completion body with the thrown
\* message itself; a failure of the mirror call is not answered with an
\* error at all.
C18_FailureSurfacedAsCoded ==
  \A i \in Invocations :
    /\ up[i].uploadError
         => /\ up[i].resp = Some(UploadError("Failed to upload file to storage"))
            /\ up[i].cause = Some(ServiceFailure("storage.upload"))
            /\ up[i].resp[1].error # up[i].cause
    /\ up[i].fileError
         => /\ up[i].resp = Some(UploadError("Failed to save file metadata"))
            /\ up[i].cause = Some(ServiceFailure("files.insert"))
            /\ up[i].resp[1].error # up[i].cause
    /\ (up[i].mirror # None
         /\ (up[i].mirror[1].threw \/ ~ResponseOk(up[i].mirror[1].status)))
         => up[i].resp[1].status = 200 /\ up[i].resp[1].error = None
    /\ cc[i].projectError
         => /\ cc[i].resp = Some(ChatError("Failed to fetch project details"))
            /\ cc[i].cause = Some(ServiceFailure("projects.select"))
            /\ cc[i].resp[1].error # cc[i].cause
    /\ cc[i].messageError
         => /\ cc[i].resp = Some(ChatError("Failed to save assistant message"))
            /\ cc[i].cause = Some(ServiceFailure("messages.insert"))
            /\ cc[i].resp[1].error # cc[i].cause
    /\ (cc[i].upstream # None /\ cc[i].pc = "done" /\ ~cc[i].messageError
         /\ cc[i].resp[1].status # 200)
         => LET o == cc[i].upstream[1] IN
            /\ cc[i].cause = Some(o.text)
            /\ cc[i].resp[1].error =
                 IF ~o.threw /\ ~ResponseOk(o.status)
                 THEN Some("OpenAI API error: " \o ToString(o.status)
                           \o " " \o o.text)
                 ELSE Some(o.text)

\* A storage write has failed and the invocation has answered with the fixed
\* message, the storage service's message being another one.
C18_Witness ==
  \E i \in Invocations :
    /\ up[i].pc = "done"
    /\ up[i].uploadError
    /\ up[i].cause = Some("The resource already exists")
    /\ up[i].resp[1].error = Some("Failed to upload file to storage")

\* C19 as claimed: once a project is deleted, no object that backs a file
\* uploaded to that project is left in the bucket.
C19_NoObjectOfDeletedProject ==
  \A i \in Invocations :
    ( /\ up[i].fileData # None
      /\ ~ProjectExists(up[i].fileData[1].project_id) )
    => up[i].fileData[1].storage_path \notin bucket

\* C20: sendMessage looks only at the input text, the selected chat and the
\* user of its render: every call made with a non-blank text and a chat
\* selected goes on to the insert, whether or not an earlier call is in
\* flight; every call whose insert succeeded has left a user row of its own
\* and invokes the completion function with its body.
C20_PastInsert == { k \in Sends : sm[k].pc \in {"invoke", "done"} /\ ~sm[k].saveError }

C20_NoInFlightGuard ==
  /\ \A k \in Sends :
       ( /\ sm[k].pc # "idle"
         /\ Trim(sm[k].inputMessage) # <<>>
         /\ sm[k].selectedChat # None )
       => sm[k].pc # "returned"
  /\ Cardinality({ j \in 1 .. Len(messages) : messages[j].role = "user" })
       = Cardinality(C20_PastInsert)
  /\ \A k \in Sends :
       cc[k].pc # "idle" => k \in C20_PastInsert /\ cc[k].req = sm[k].body[1]
  /\ \A k \in C20_PastInsert :
       sm[k].pc = "done" => cc[k].pc = "done"

\* Two calls made with the same render have both run to their end: the chat
\* holds the user's message twice and a reply for each, the first reply
\* stored after the second user row.
C20_Witness ==
  /\ sm[1].pc = "done" /\ sm[2].pc = "done"
  /\ sm[1].inputMessage = <<"hi", " ">> /\ sm[2].inputMessage = <<"hi", " ">>
  /\ sm[1].history = <<>> /\ sm[2].history = <<>>
  /\ cc[1].resp # None /\ cc[2].resp # None
  /\ cc[1].resp[1].status = 200 /\ cc[2].resp[1].status = 200
  /\ Len(messages) = 4
  /\ messages[1].role = "user" /\ messages[2].role = "user"
  /\ messages[1].content = "hi" /\ messages[2].content = "hi"
  /\ messages[3].role = "assistant" /\ messages[4].role = "assistant"

\* ------------------------------------------------------------------- C21
\* The invocations of one onDrop call that were started and have not
\* returned to it.
InFlight(k) == drops[k].sent \ drops[k].returned

\* C21: within one onDrop batch the upload invocations are strictly
\* sequential: a file's invocation is started only after the invocations of
\* the files before it have returned, so a batch never has more than one
\* upload call in flight, and the upload function never runs two requests of
\* one batch at a time.
C21_SequentialUploads ==
  \A k \in Drops :
    /\ Cardinality(InFlight(k)) <= 1
    /\ \A j \in drops[k].sent :
         \A h \in drops[k].sent : h < j => h \in drops[k].returned
    /\ \A j \in 1 .. BatchLen :
         up[Slot(k, j)].pc # "idle" =>
           /\ j \in drops[k].sent
           /\ up[Slot(k, j)].pc # "done" => InFlight(k) = {j}

\* The second file of a batch is with the upload function, the first has
\* returned.
C21_Witness ==
  \E k \in Drops :
    /\ drops[k].acceptedFiles = <<SmallFile, LimitFile>>
    /\ drops[k].returned = {1}
    /\ InFlight(k) = {2}
    /\ up[Slot(k, 2)].pc = "insert"

\* ------------------------------------------------------------------- C22
\* The rows of the given role among the first n rows of messages.
RowsUpTo(n, role) == { q \in 1 .. n : messages[q].role = role }
HasEntry(list, role, content) ==
  \E q \in 1 .. Len(list) : list[q].role = role /\ list[q].content = content

\* In every state: the completion function is invoked by a send only after
\* the send's user row was inserted, so the assistant row a send produced
\* comes after a user row with the send's text in its chat, and up to any
\* assistant row there are at least as many user rows as assistant rows; a
\* send whose insert failed has not invoked the function; a send whose
\* insert succeeded and whose invocation failed has its user message in the
\* store and in the local list.
C22_Ordered ==
  /\ \A p \in 1 .. Len(messages) :
       messages[p].role = "assistant" =>
         Cardinality(RowsUpTo(p, "user"))
           >= Cardinality(RowsUpTo(p, "assistant"))
  /\ \A k \in Sends :
       /\ cc[k].pc # "idle" => sm[k].pc \in {"invoke", "done"} /\ ~sm[k].saveError
       /\ cc[k].saved # None =>
            \E p \in 1 .. Len(messages) :
              /\ messages[p] = cc[k].saved[1]
              /\ \E q \in 1 .. p - 1 :
                   /\ messages[q].role = "user"
                   /\ messages[q].chat_id = sm[k].selectedChat[1]
                   /\ messages[q].content = sm[k].userMessage
       /\ sm[k].saveError => cc[k].pc = "idle" /\ sm[k].body = None
       /\ ( /\ sm[k].pc = "done" /\ ~sm[k].saveError
            /\ ~ResponseOk(cc[k].resp[1].status) ) =>
            /\ cc[k].saved = None
            /\ HasEntry(messages, "user", sm[k].userMessage)
            /\ HasEntry(ci.messages, "user", sm[k].userMessage)

\* In every step: a failing insert leaves the store and the local list as
\* they were; the return of a failed invocation appends nothing to the local
\* list.
C22_Step ==
  \A k \in Sends :
    /\ (sm[k].pc = "insert" /\ sm'[k].saveError) =>
         ci'.messages = ci.messages /\ messages' = messages
    /\ ( /\ sm[k].pc = "invoke" /\ sm'[k].pc = "done"
         /\ ~ResponseOk(cc[k].resp[1].status) ) =>
         ci'.messages = ci.messages /\ messages' = messages

\* C22: sendMessage inserts the user row before it invokes the completion
\* function, so every assistant row produced by a send is preceded by that
\* send's user row; if the insert fails the function is not invoked and the
\* local list is left unchanged; if the function fails after the user row
\* was saved, the user message stays in the store and in the local list and
\* no assistant message is appended.
C22_UserRowFirst == [](C22_Ordered) /\ [][C22_Step]_vars

\* One send's insert has failed, the next send's insert succeeded and its
\* invocation failed.
C22_Witness ==
  /\ sm[1].pc = "done" /\ sm[1].saveError
  /\ sm[2].pc = "done" /\ ~sm[2].saveError
  /\ cc[1].pc = "idle"
  /\ cc[2].resp # None
  /\ ~ResponseOk(cc[2].resp[1].status)
  /\ Len(messages) = 1 /\ Len(ci.messages) = 1

\* ------------------------------------------------------------------- C23
\* The store holds a row of the chat with the entry's role and content.
BelongsTo(e, chat) ==
  \E q \in 1 .. Len(messages) :
    /\ messages[q].chat_id = chat
    /\ messages[q].role = e.role
    /\ messages[q].content = e.content

\* Nothing of the component is in flight: it has rendered its state, no
\* loadMessages and no sendMessage call is awaiting an answer.
Settled ==
  /\ view = ci
  /\ lm = {}
  /\ \A k \in Sends : sm[k].pc \in {"idle", "returned", "done"}

\* C23: every message of ChatInterface's local list belongs to the selected
\* chat, whatever the order of chat selections, loadMessages responses and
\* sendMessage responses was; stated for the states where every response has
\* arrived (the list of a chat whose load is still under way is not looked
\* at).
C23_ListOfSelectedChat ==
  Settled =>
    \A q \in 1 .. Len(ci.messages) :
      /\ ci.selectedChat # None
      /\ BelongsTo(ci.messages[q], ci.selectedChat[1])

\* ------------------------------------------------------------------- C24
\* C24: in the Dashboard a selected chat is a chat of the selected project
\* (and a project is selected), whatever the order of project selection,
\* back navigation, deleteProject and the createNewChat response was; stated
\* for the states where no handler call is waiting for an answer.
C24_SelectedChatOfSelectedProject ==
  (reqs = {} /\ dash.selectedChat # None) =>
    /\ dash.selectedProject # None
    /\ dash.selectedChat[1].project_id = dash.selectedProject[1]

\* ------------------------------------------------------------------- C25
\* C25: the Dashboard's chats and files lists hold only rows of the selected
\* project, also when a loadChats / loadFiles response for a project arrives
\* after another project was selected; stated for the states where a project
\* is selected and no handler call is waiting for an answer.
C25_ListsOfSelectedProject ==
  (reqs = {} /\ dash.selectedProject # None) =>
    /\ \A c \in dash.chats : c.project_id = dash.selectedProject[1]
    /\ \A f \in dash.files : f.project_id = dash.selectedProject[1]

\* ------------------------------------------------------------------- C26
\* No upload invocation and no deleteFile call is under way.
StoreSettled ==
  /\ \A i \in DOMAIN up : up[i].pc \in {"idle", "done"}
  /\ \A d \in Deletes : dels[d].pc \in {"idle", "done"}

\* C26: after any sequence of uploads through the upload function and of
\* deleteFile calls, the storage_path of every files row names an object of
\* the bucket.
C26_EveryRowHasItsObject ==
  StoreSettled => \A f \in files : f.storage_path \in bucket

\* ------------------------------------------------------------------- C27
\* The files of a batch that are not over the limit.
WithinLimit(batch) ==
  { j \in 1 .. Len(batch) : batch[j].size <= MaxUploadSize }

\* C27: onDrop never sends a file larger than 20 MiB to the upload function;
\* a skipped file or a failed upload does not stop the rest of the batch:
\* when the call has ended every file within the limit was sent and has
\* returned and every file has had its toast; onFilesChange is called once,
\* after the whole batch.
C27_WholeBatchOneRefresh ==
  /\ \A i \in UploadSlots :
       up[i].pc # "idle" => up[i].req.file[1].size <= MaxUploadSize
  /\ \A k \in Drops :
       /\ drops[k].sent \subseteq WithinLimit(drops[k].acceptedFiles)
       /\ \A j \in drops[k].returned : up[Slot(k, j)].pc = "done"
       /\ drops[k].pc = "done" =>
            /\ drops[k].sent = WithinLimit(drops[k].acceptedFiles)
            /\ drops[k].returned = drops[k].sent
            /\ Len(drops[k].toasts) = Len(drops[k].acceptedFiles)
            /\ drops[k].onFilesChange = 1
       /\ drops[k].pc # "done" => drops[k].onFilesChange = 0

\* A batch has ended whose first upload failed, whose second file was
\* skipped and whose third file was uploaded.
C27_Witness ==
  \E k \in Drops :
    /\ drops[k].pc = "done"
    /\ drops[k].acceptedFiles = <<SmallFile, LargeFile, LimitFile>>
    /\ drops[k].toasts = <<"Upload failed", "File too large", "File uploaded">>
    /\ drops[k].onFilesChange = 1
    /\ \E f \in files : f.name = LimitFile.name

\* ------------------------------------------------------------------- C28
\* The literal reading: no onDrop call starts in a state where uploading is
\* true.
C28_NoDropWhileUploading ==
  [][\A k \in Drops :
       (drops[k].pc = "idle" /\ drops'[k].pc # "idle") => ~fu.uploading]_vars

\* A drop is accepted only by a dropzone that was rendered with uploading
\* false (disabled: uploading).
C28_DisabledStep ==
  \A k \in Drops :
    (drops[k].pc = "idle" /\ drops'[k].pc # "idle") => ~fuView.uploading

\* C28: every started sendMessage call and every started onDrop call comes
\* to its end and sets its busy flag (loading, uploading) to false there,
\* whatever its requests returned, provided they return; a dropzone rendered
\* with uploading true accepts no drop.
C28_BusyFlagsReset ==
  /\ \A k \in Invocations :
       (sm[k].pc \in {"insert", "invoke"}) ~> (sm[k].pc = "done" /\ ~ci.loading)
  /\ \A k \in Drops :
       (drops[k].pc = "await") ~> (drops[k].pc = "done" /\ ~fu.uploading)
  /\ [][C28_DisabledStep]_vars

\* Every onDrop call has ended, one of them with a failed upload after a
\* skipped file; uploading is false again.
C28_Witness ==
  /\ \A k \in Drops : drops[k].pc = "done"
  /\ \E k \in Drops :
       drops[k].toasts = <<"File too large", "Upload failed">>
  /\ ~fu.uploading

====
